---- MODULE Spec2Model ----
(***************************************************************************)
(* GraphBolt sampling utilities (python/dgl/graphbolt/internal/            *)
(* sample_utils.py): ID compaction of node lists, node pairs and CSC       *)
(* blocks, and reverse-edge synthesis.                                     *)
(*                                                                         *)
(* The feature store (python/dgl/graphbolt/feature_store.py and impl/):    *)
(* a dict of features, each wrapping one tensor that is read, sized and    *)
(* updated in place.                                                       *)
(*                                                                         *)
(* Every utility is a synchronous call.  A call is modelled by four        *)
(* variables: the operation called, its arguments, the position of the     *)
(* call ("call", "return" or "raise") and the value returned.  Tensors are *)
(* sequences of integers; a dense (0-based) ID i addresses element i + 1   *)
(* of a sequence.  A python dict whose iteration order the code depends on *)
(* is a sequence of <<key, value>> pairs with distinct keys; a dict that   *)
(* is only looked up by key is a function.                                 *)
(***************************************************************************)
EXTENDS Integers, Sequences, FiniteSets, TLC

VARIABLES op, args, pc, ret, features, workers

vars == <<op, args, pc, ret, features, workers>>

\* The compaction utilities and add_reverse_edges are functions of their
\* arguments: they are called without a feature store, whose dict of features
\* (features) and whose concurrent callers (workers) stay empty.
NoStore == features = <<>> /\ workers = <<>>

(***************************************************************************)
(* Bounds of the model.                                                    *)
(***************************************************************************)
\* Node IDs are 0..MaxId in every operation.
MaxId == 1
\* unique_and_compact: total number of IDs in one call, chunks per type.
MaxLen == 3
MaxChunks == 2
\* unique_and_compact_node_pairs: total number of edges in one call.
MaxEdges == 2
\* CSC operations: total number of destination nodes and indices in one call.
MaxCsc == 4
\* add_reverse_edges: total number of edges in one call.
MaxRev == 2
\* Feature store: rows of all the features of a store together, elements of
\* a row of a two-dimensional feature, length of ids, largest element.
MaxRows == 2
MaxWidth == 1
MaxIdsLen == 2
MaxValue == 1
\* TorchBasedFeatureStore: descriptors of one construction.
MaxDescriptors == 2
\* Concurrent callers of one feature store.
MaxWorkers == 2

Ids == 0 .. MaxId

NodeTypes == {"n1", "n2"}

(***************************************************************************)
(* Tensor primitives used by the utilities.                                *)
(***************************************************************************)
Range(t) == {t[i] : i \in DOMAIN t}

RECURSIVE SeqSum(_)
SeqSum(s) == IF s = <<>> THEN 0 ELSE Head(s) + SeqSum(Tail(s))

\* torch.cat(tensors): the tensors one after the other, in list order.
RECURSIVE cat(_)
cat(tensors) ==
    IF tensors = <<>> THEN <<>> ELSE Head(tensors) \o cat(Tail(tensors))

\* tensor.split(nums): consecutive pieces of the given lengths.
RECURSIVE split(_, _)
split(t, nums) ==
    IF nums = <<>> THEN <<>>
    ELSE <<SubSeq(t, 1, Head(nums))>>
         \o split(SubSeq(t, Head(nums) + 1, Len(t)), Tail(nums))

\* t[:n] and t[n:]
take(t, n) == SubSeq(t, 1, IF n < Len(t) THEN n ELSE Len(t))
drop(t, n) == SubSeq(t, n + 1, Len(t))

\* torch.arange(0, n) + offset
arange_plus(n, offset) == [p \in 1 .. n |-> p - 1 + offset]

SeqsOfLen(S, n) == [1 .. n -> S]

\* Every choice of one element of F[k] per key k: the functions f on
\* DOMAIN F with f[k] \in F[k].
RECURSIVE Product(_)
Product(F) ==
    IF DOMAIN F = {} THEN {<<>>}
    ELSE LET k == CHOOSE x \in DOMAIN F : TRUE
             rest == [x \in DOMAIN F \ {k} |-> F[x]]
         IN  {(k :> v) @@ g : v \in F[k], g \in Product(rest)}

(***************************************************************************)
(* The native dedup-and-relabel primitive                                  *)
(* torch.ops.graphbolt.unique_and_compact(src, dst, unique_dst).  Its      *)
(* contract: the unique IDs hold every distinct value of the three inputs  *)
(* exactly once, in an order the caller must not depend on, and each       *)
(* compacted element is the index of the input element among the unique    *)
(* IDs.  The operator is the set of results the contract allows.           *)
(***************************************************************************)
UniqueOrders(S) ==
    {u \in SeqsOfLen(S, Cardinality(S)) : Range(u) = S}

index_of(u, x) == (CHOOSE i \in 1 .. Len(u) : u[i] = x) - 1

ops_unique_and_compact(src, dst, unique_dst) ==
    {<<u,
       [p \in 1 .. Len(src) |-> index_of(u, src[p])],
       [p \in 1 .. Len(dst) |-> index_of(u, dst[p])]>> :
        u \in UniqueOrders(Range(src) \cup Range(dst) \cup Range(unique_dst))}

(***************************************************************************)
(* unique_and_compact(nodes)                                               *)
(***************************************************************************)
\* Variant: the relabeling is split by the chunk lengths in reverse order.
unique_and_compact_per_type_reversed_nums(nodes) ==
    LET nums == [i \in 1 .. Len(nodes) |-> Len(nodes[Len(nodes) + 1 - i])]
        flat == cat(nodes)
    IN  {[unique |-> r[1], compacted |-> split(r[2], nums)] :
            r \in ops_unique_and_compact(flat, <<>>, <<>>)}

\* Variant: the last chunk is relabeled on its own and the unique IDs of the
\* chunks before it are returned.
unique_and_compact_per_type_last_apart(nodes) ==
    LET n == Len(nodes)
        nums == [i \in 1 .. n - 1 |-> Len(nodes[i])]
        flat == cat(SubSeq(nodes, 1, n - 1))
    IN  {[unique |-> r[1], compacted |-> split(r[2], nums) \o <<q[2]>>] :
            r \in ops_unique_and_compact(flat, <<>>, <<>>),
            q \in ops_unique_and_compact(nodes[n], <<>>, <<>>)}

\* The results of the inner function for one type's list of chunks.
unique_and_compact_per_type(nodes) ==
    LET nums == [i \in 1 .. Len(nodes) |-> Len(nodes[i])]
        flat == cat(nodes)
    IN  {[unique |-> r[1], compacted |-> split(r[2], nums)] :
            r \in ops_unique_and_compact(flat, <<>>, <<>>)}

\* The results of the call: for a dict, a dict of unique IDs and a dict of
\* compacted chunk lists.
unique_and_compact(nodes, is_heterogeneous) ==
    IF is_heterogeneous
    THEN {[unique |-> [t \in DOMAIN f |-> f[t].unique],
           compacted |-> [t \in DOMAIN f |-> f[t].compacted]] :
             f \in Product([t \in DOMAIN nodes |->
                               unique_and_compact_per_type(nodes[t])])}
    ELSE unique_and_compact_per_type(nodes)

(***************************************************************************)
(* Inputs of unique_and_compact.                                           *)
(***************************************************************************)
\* The lists of 1..MaxChunks chunks holding n IDs in all.
ChunkListsOfLen(n) ==
    LET numss == {nums \in UNION {SeqsOfLen(0 .. n, k) : k \in 1 .. MaxChunks} :
                     SeqSum(nums) = n}
    IN  {split(flat, nums) : flat \in SeqsOfLen(Ids, n), nums \in numss}

\* The dicts over a subset of the types T holding at most n IDs in all.
RECURSIVE NodeDicts(_, _)
NodeDicts(T, n) ==
    IF T = {} THEN {<<>>}
    ELSE LET t == CHOOSE x \in T : TRUE
         IN  NodeDicts(T \ {t}, n)
             \cup UNION {{(t :> c) @@ d : c \in ChunkListsOfLen(k),
                                         d \in NodeDicts(T \ {t}, n - k)} :
                           k \in 0 .. n}

HomoNodeInputs(n) ==
    {[nodes |-> c, is_heterogeneous |-> FALSE] :
        c \in UNION {ChunkListsOfLen(k) : k \in 0 .. n}}

HeteroNodeInputs(n) ==
    {[nodes |-> d, is_heterogeneous |-> TRUE] : d \in NodeDicts(NodeTypes, n)}

InitNodes ==
    /\ op = "unique_and_compact"
    /\ \/ args \in HomoNodeInputs(MaxLen)
       \/ args \in HeteroNodeInputs(MaxLen)
    /\ pc = "call"
    /\ ret = <<>>
    /\ NoStore

UniqueAndCompact ==
    /\ op = "unique_and_compact"
    /\ pc = "call"
    /\ \E r \in unique_and_compact(args.nodes, args.is_heterogeneous) :
          ret' = r
    /\ pc' = "return"
    /\ UNCHANGED <<op, args, features, workers>>

NextNodes == UniqueAndCompact

SpecNodes == InitNodes /\ [][NextNodes]_vars

(***************************************************************************)
(* Properties of unique_and_compact.                                       *)
(***************************************************************************)
\* Indexing unique by the dense IDs compacted gives original, element for
\* element.
maps_back(unique, compacted, original) ==
    /\ Len(compacted) = Len(original)
    /\ \A p \in 1 .. Len(original) :
          /\ compacted[p] \in 0 .. Len(unique) - 1
          /\ unique[compacted[p] + 1] = original[p]

chunks_map_back(unique, compacted, nodes) ==
    /\ Len(compacted) = Len(nodes)
    /\ \A i \in 1 .. Len(nodes) : maps_back(unique, compacted[i], nodes[i])

no_duplicates(t) == Cardinality(Range(t)) = Len(t)

NodesReturned == op = "unique_and_compact" /\ pc = "return"

\* C1: unique_and_compact returns, for every type, as many chunks as it was
\* given, in the same order, and indexing the type's unique IDs by chunk i of
\* the result gives chunk i of the input, element for element.
C1_ChunksMapBack ==
    NodesReturned =>
        IF args.is_heterogeneous
        THEN /\ DOMAIN ret.unique = DOMAIN args.nodes
             /\ DOMAIN ret.compacted = DOMAIN args.nodes
             /\ \A t \in DOMAIN args.nodes :
                   chunks_map_back(ret.unique[t], ret.compacted[t], args.nodes[t])
        ELSE chunks_map_back(ret.unique, ret.compacted, args.nodes)

\* A dict of two types, one of them with two chunks of different lengths that
\* share an ID, has been compacted.
C1_Witness ==
    /\ NodesReturned
    /\ args.is_heterogeneous
    /\ DOMAIN args.nodes = NodeTypes
    /\ \E t \in NodeTypes :
          /\ Len(args.nodes[t]) = 2
          /\ Len(args.nodes[t][1]) = 1
          /\ Len(args.nodes[t][2]) = 2
          /\ args.nodes[t][1][1] = args.nodes[t][2][2]
          /\ args.nodes[t][2][1] # args.nodes[t][2][2]

unique_of_flat(unique, nodes) ==
    LET flat == cat(nodes)
    IN  /\ no_duplicates(unique)
        /\ Range(unique) = Range(flat)
        /\ Len(unique) <= Len(flat)
        /\ (Len(unique) = Len(flat)) <=> no_duplicates(flat)

\* C2: for every type the unique IDs hold each distinct value of the
\* flattened input exactly once and nothing else; they are at most as many as
\* the flattened input, and as many exactly when it has no duplicates.
C2_UniqueIsDistinctInput ==
    NodesReturned =>
        IF args.is_heterogeneous
        THEN /\ DOMAIN ret.unique = DOMAIN args.nodes
             /\ \A t \in DOMAIN args.nodes :
                   unique_of_flat(ret.unique[t], args.nodes[t])
        ELSE unique_of_flat(ret.unique, args.nodes)

\* A homogeneous list of two chunks whose second chunk brings a new ID and a
\* duplicate has been compacted to fewer unique IDs than input IDs.
C2_Witness ==
    /\ NodesReturned
    /\ ~args.is_heterogeneous
    /\ Len(args.nodes) = 2
    /\ Len(cat(args.nodes)) = 3
    /\ ~(Range(args.nodes[2]) \subseteq Range(args.nodes[1]))
    /\ Len(ret.unique) = 2

(***************************************************************************)
(* Edge types.  An edge type key is the string "src:relation:dst"; a       *)
(* string is modelled as the sequence of its tokens, the separator ":"     *)
(* being a token of its own.                                               *)
(***************************************************************************)
\* str.split(sep): the pieces between the separators; piece holds the
\* tokens read since the last separator.
RECURSIVE str_split_from(_, _, _, _)
str_split_from(s, sep, i, piece) ==
    IF i > Len(s) THEN <<piece>>
    ELSE IF s[i] = sep THEN <<piece>> \o str_split_from(s, sep, i + 1, <<>>)
    ELSE str_split_from(s, sep, i + 1, Append(piece, s[i]))

str_split(s, sep) == str_split_from(s, sep, 1, <<>>)

\* etype_str_to_tuple: (src_type, relation, dst_type); a type name is one token.
etype_str_to_tuple(etype) ==
    LET parts == str_split(etype, ":")
    IN  <<parts[1][1], parts[2][1], parts[3][1]>>

EdgeTypeList ==
    <<<<"n1", ":", "e1", ":", "n2">>,
      <<"n1", ":", "e2", ":", "n1">>,
      <<"n2", ":", "e3", ":", "n1">>>>

HomoEdgeType == <<"_N", ":", "_E", ":", "_N">>
HomoNodeType == "_N"

\* An optional argument: None, or a value.
None == [none |-> TRUE]
Some(v) == [none |-> FALSE, value |-> v]

\* dict.get(key, default) on a dict modelled as a function.
get(d, key, default) == IF key \in DOMAIN d THEN d[key] ELSE default

\* torch.unique(t): the distinct values of t in ascending order.
RECURSIVE sorted_seq(_)
sorted_seq(S) ==
    IF S = {} THEN <<>>
    ELSE LET m == CHOOSE x \in S : \A y \in S : x <= y
         IN  <<m>> \o sorted_seq(S \ {m})

torch_unique(t) == sorted_seq(Range(t))

(***************************************************************************)
(* unique_and_compact_node_pairs(node_pairs, unique_dst_nodes)             *)
(***************************************************************************)
\* defaultdict(list)[key].append(t) followed by torch.cat: the bucket of key
\* grows by t at its end.
bucket_append(buckets, key, t) ==
    IF key \in DOMAIN buckets THEN [buckets EXCEPT ![key] = @ \o t]
    ELSE buckets @@ (key :> t)

\* "Collect all source and destination nodes for each node type": the loop
\* over node_pairs.items(), then the concatenation of every bucket.
RECURSIVE collect_nodes(_)
collect_nodes(node_pairs) ==
    IF node_pairs = <<>> THEN [src_nodes |-> <<>>, dst_nodes |-> <<>>]
    ELSE LET n == Len(node_pairs)
             before == collect_nodes(SubSeq(node_pairs, 1, n - 1))
             ty == etype_str_to_tuple(node_pairs[n][1])
         IN  [src_nodes |-> bucket_append(before.src_nodes, ty[1], node_pairs[n][2][1]),
              dst_nodes |-> bucket_append(before.dst_nodes, ty[3], node_pairs[n][2][2])]

\* Variant: the relabelings are not advanced past an edge type's elements.
RECURSIVE map_back_pairs_no_advance(_, _, _)
map_back_pairs_no_advance(node_pairs, compacted_src, compacted_dst) ==
    IF node_pairs = <<>> THEN <<>>
    ELSE LET etype == Head(node_pairs)[1]
             num_elem == Len(Head(node_pairs)[2][1])
             ty == etype_str_to_tuple(etype)
         IN  (etype :> <<take(compacted_src[ty[1]], num_elem),
                         take(compacted_dst[ty[3]], num_elem)>>)
             @@ map_back_pairs_no_advance(Tail(node_pairs), compacted_src,
                                          compacted_dst)

\* "Map back with the same order": every edge type takes the next num_elem
\* elements of its source type's and of its destination type's relabeling.
RECURSIVE map_back_pairs(_, _, _)
map_back_pairs(node_pairs, compacted_src, compacted_dst) ==
    IF node_pairs = <<>> THEN <<>>
    ELSE LET etype == Head(node_pairs)[1]
             num_elem == Len(Head(node_pairs)[2][1])
             ty == etype_str_to_tuple(etype)
             src_type == ty[1]
             dst_type == ty[3]
             src == take(compacted_src[src_type], num_elem)
             dst == take(compacted_dst[dst_type], num_elem)
             rest_src == [compacted_src EXCEPT ![src_type] = drop(@, num_elem)]
             rest_dst == [compacted_dst EXCEPT ![dst_type] = drop(@, num_elem)]
         IN  (etype :> <<src, dst>>)
             @@ map_back_pairs(Tail(node_pairs), rest_src, rest_dst)

\* Variant: the unique destination nodes are not handed to the primitive.
relabel_node_type_without_unique_dst(src_nodes, dst_nodes, unique_dst_nodes, ntype) ==
    ops_unique_and_compact(get(src_nodes, ntype, <<>>),
                           get(dst_nodes, ntype, <<>>),
                           <<>>)

\* Variant: the sources and the destinations of the type are compacted
\* apart, each from dense ID 0.
relabel_node_type_roles_apart(src_nodes, dst_nodes, unique_dst_nodes, ntype) ==
    {<<of_dst[1] \o of_src[1], of_src[2], of_dst[3]>> :
        of_src \in ops_unique_and_compact(get(src_nodes, ntype, <<>>), <<>>, <<>>),
        of_dst \in ops_unique_and_compact(<<>>, get(dst_nodes, ntype, <<>>),
                                          get(unique_dst_nodes, ntype, <<>>))}

\* One iteration of "for ntype in ntypes": the primitive on the type's
\* sources, destinations and unique destination nodes.
relabel_node_type(src_nodes, dst_nodes, unique_dst_nodes, ntype) ==
    ops_unique_and_compact(get(src_nodes, ntype, <<>>),
                           get(dst_nodes, ntype, <<>>),
                           get(unique_dst_nodes, ntype, <<>>))

\* The results of the call.
unique_and_compact_node_pairs(node_pairs_arg, unique_dst_nodes_arg, is_homogeneous) ==
    LET node_pairs ==
            IF is_homogeneous THEN <<<<HomoEdgeType, node_pairs_arg>>>>
            ELSE node_pairs_arg
        given ==
            IF is_homogeneous /\ ~unique_dst_nodes_arg.none
            THEN Some(HomoNodeType :> unique_dst_nodes_arg.value)
            ELSE unique_dst_nodes_arg
        src_nodes == collect_nodes(node_pairs).src_nodes
        dst_nodes == collect_nodes(node_pairs).dst_nodes
        unique_dst_nodes ==
            IF given.none
            THEN [t \in DOMAIN dst_nodes |-> torch_unique(dst_nodes[t])]
            ELSE given.value
        ntypes == DOMAIN dst_nodes \cup DOMAIN src_nodes
        relabelings ==
            Product([t \in ntypes |->
                relabel_node_type(src_nodes, dst_nodes, unique_dst_nodes, t)])
    IN  {LET unique_nodes == [t \in ntypes |-> r[t][1]]
             compacted_node_pairs ==
                 map_back_pairs(node_pairs,
                                [t \in ntypes |-> r[t][2]],
                                [t \in ntypes |-> r[t][3]])
         IN  IF is_homogeneous
             THEN [unique_nodes |-> unique_nodes[HomoNodeType],
                   compacted_node_pairs |-> compacted_node_pairs[HomoEdgeType]]
             ELSE [unique_nodes |-> unique_nodes,
                   compacted_node_pairs |-> compacted_node_pairs] :
           r \in relabelings}

(***************************************************************************)
(* Inputs of unique_and_compact_node_pairs.                                *)
(***************************************************************************)
\* The orders in which a dict holds some of the edge types: any one or two
\* of them in either order, all of them along EdgeTypeList or against it.
reversed(s) == [i \in 1 .. Len(s) |-> s[Len(s) + 1 - i]]

EdgeTypeOrders ==
    LET along == {[i \in 1 .. Len(ix) |-> EdgeTypeList[ix[i]]] :
                    ix \in {sorted_seq(S) : S \in SUBSET (1 .. Len(EdgeTypeList)) \ {{}}}}
    IN  along \cup {reversed(es) : es \in along}

\* The pairs of n edges.
EdgePairs(n) == {<<s, d>> : s \in SeqsOfLen(Ids, n), d \in SeqsOfLen(Ids, n)}

\* The dicts holding the edge types es, in this order, with at most n edges in all.
RECURSIVE PairDicts(_, _)
PairDicts(es, n) ==
    IF es = <<>> THEN {<<>>}
    ELSE UNION {{<<<<Head(es), pr>>>> \o rest :
                    pr \in EdgePairs(k), rest \in PairDicts(Tail(es), n - k)} :
                  k \in 0 .. n}

\* The number of edges of a dict.
RECURSIVE num_edges(_)
num_edges(node_pairs) ==
    IF node_pairs = <<>> THEN 0
    ELSE Len(Head(node_pairs)[2][1]) + num_edges(Tail(node_pairs))

\* The destination tables a caller can supply for the destinations dst: no
\* ID twice, every destination ID, and at most extra further IDs (seed
\* nodes without an edge).
RECURSIVE total_len(_)
total_len(d) ==
    IF DOMAIN d = {} THEN 0
    ELSE LET k == CHOOSE x \in DOMAIN d : TRUE
         IN  Len(d[k]) + total_len([x \in DOMAIN d \ {k} |-> d[x]])

\* The destination tables a caller can supply for the destinations dst: no
\* ID twice, every destination ID, and at most extra further IDs (seed
\* nodes without an edge).
UniqueDstFor(dst, extra) ==
    {sorted_seq(S) : S \in {X \in SUBSET Ids : /\ Range(dst) \subseteq X
                                               /\ Cardinality(X \ Range(dst)) <= extra}}

HeteroUniqueDst(dst_nodes, extra) ==
    {u \in Product([t \in DOMAIN dst_nodes |-> UniqueDstFor(dst_nodes[t], extra)]) :
        total_len(u) - total_len([t \in DOMAIN dst_nodes |-> torch_unique(dst_nodes[t])])
            <= extra}

\* The calls: edges and further destination IDs are at most MaxEdges in all.
PairCall(node_pairs, unique_dst_nodes, is_homogeneous) ==
    [node_pairs |-> node_pairs, unique_dst_nodes |-> unique_dst_nodes,
     is_homogeneous |-> is_homogeneous]

InitPairs ==
    /\ op = "unique_and_compact_node_pairs"
    /\ \/ \E k \in 0 .. MaxEdges : \E pr \in EdgePairs(k) :
             \/ args = PairCall(pr, None, TRUE)
             \/ \E u \in UniqueDstFor(pr[2], MaxEdges - k) :
                   args = PairCall(pr, Some(u), TRUE)
       \/ \E es \in EdgeTypeOrders : \E np \in PairDicts(es, MaxEdges) :
             \/ args = PairCall(np, None, FALSE)
             \/ \E u \in HeteroUniqueDst(collect_nodes(np).dst_nodes,
                                       MaxEdges - num_edges(np)) :
                   args = PairCall(np, Some(u), FALSE)
    /\ pc = "call"
    /\ ret = <<>>
    /\ NoStore

UniqueAndCompactNodePairs ==
    /\ op = "unique_and_compact_node_pairs"
    /\ pc = "call"
    /\ \E r \in unique_and_compact_node_pairs(args.node_pairs, args.unique_dst_nodes,
                                              args.is_homogeneous) :
          ret' = r
    /\ pc' = "return"
    /\ UNCHANGED <<op, args, features, workers>>

NextPairs == UniqueAndCompactNodePairs

SpecPairs == InitPairs /\ [][NextPairs]_vars

(***************************************************************************)
(* Properties of unique_and_compact_node_pairs.                            *)
(***************************************************************************)
PairsReturned == op = "unique_and_compact_node_pairs" /\ pc = "return"

\* The edge types of the call's dict, in its order.
pair_etypes == [i \in 1 .. Len(args.node_pairs) |-> args.node_pairs[i][1]]

\* C3: for every edge type of the input the relabeled pair is as long as the
\* input pair, and indexing the unique IDs of the source type by the
\* relabeled sources, and those of the destination type by the relabeled
\* destinations, gives the input pair element for element.
C3_PairsMapBack ==
    PairsReturned =>
        IF args.is_homogeneous
        THEN /\ maps_back(ret.unique_nodes, ret.compacted_node_pairs[1],
                          args.node_pairs[1])
             /\ maps_back(ret.unique_nodes, ret.compacted_node_pairs[2],
                          args.node_pairs[2])
        ELSE /\ DOMAIN ret.compacted_node_pairs = Range(pair_etypes)
             /\ \A i \in 1 .. Len(args.node_pairs) :
                   LET etype == args.node_pairs[i][1]
                       pair == args.node_pairs[i][2]
                       src_type == etype_str_to_tuple(etype)[1]
                       dst_type == etype_str_to_tuple(etype)[3]
                   IN  /\ src_type \in DOMAIN ret.unique_nodes
                       /\ dst_type \in DOMAIN ret.unique_nodes
                       /\ maps_back(ret.unique_nodes[src_type],
                                    ret.compacted_node_pairs[etype][1], pair[1])
                       /\ maps_back(ret.unique_nodes[dst_type],
                                    ret.compacted_node_pairs[etype][2], pair[2])

\* Two edge types with the same source type and the same destination type as
\* each other's source (n1:e2:n1 before n1:e1:n2), with different sources,
\* have been compacted.
C3_Witness ==
    /\ PairsReturned
    /\ ~args.is_homogeneous
    /\ pair_etypes = <<EdgeTypeList[2], EdgeTypeList[1]>>
    /\ Len(args.node_pairs[1][2][1]) = 1
    /\ Len(args.node_pairs[2][2][1]) = 1
    /\ args.node_pairs[1][2][1] # args.node_pairs[2][2][1]

\* C4: every node of the unique_dst_nodes the caller supplies for a node type
\* is among that type's unique IDs, also when it is the source of no edge;
\* without unique_dst_nodes every destination ID of a destination type is
\* among that type's unique IDs.
C4_DestinationsRetained ==
    PairsReturned =>
        IF args.is_homogeneous
        THEN /\ Range(args.node_pairs[2]) \subseteq Range(ret.unique_nodes)
             /\ ~args.unique_dst_nodes.none =>
                   Range(args.unique_dst_nodes.value) \subseteq Range(ret.unique_nodes)
        ELSE /\ \A i \in 1 .. Len(args.node_pairs) :
                   LET dst_type == etype_str_to_tuple(args.node_pairs[i][1])[3]
                   IN  /\ dst_type \in DOMAIN ret.unique_nodes
                       /\ Range(args.node_pairs[i][2][2])
                              \subseteq Range(ret.unique_nodes[dst_type])
             /\ ~args.unique_dst_nodes.none =>
                   \A t \in DOMAIN args.unique_dst_nodes.value :
                      /\ t \in DOMAIN ret.unique_nodes
                      /\ Range(args.unique_dst_nodes.value[t])
                             \subseteq Range(ret.unique_nodes[t])

\* The caller supplied, for a destination type that is no source type, a
\* node that occurs in no edge, and the call has returned.
C4_Witness ==
    /\ PairsReturned
    /\ ~args.is_homogeneous
    /\ ~args.unique_dst_nodes.none
    /\ pair_etypes = <<EdgeTypeList[1]>>
    /\ \E x \in Range(args.unique_dst_nodes.value["n2"]) :
          /\ x \notin Range(args.node_pairs[1][2][1])
          /\ x \notin Range(args.node_pairs[1][2][2])

(***************************************************************************)
(* CSC blocks.  CSCFormatBase(indptr, indices): destination i owns the     *)
(* indices at the positions indptr[i] .. indptr[i + 1] - 1.                *)
(***************************************************************************)
CSCFormatBase(indptr, indices) == [indptr |-> indptr, indices |-> indices]

(***************************************************************************)
(* unique_and_compact_csc_formats(csc_formats, unique_dst_nodes)           *)
(***************************************************************************)
\* "Collect all source and destination nodes for each node type": the
\* indices of every block, bucketed by source type, each bucket concatenated.
RECURSIVE collect_indices(_)
collect_indices(csc_formats) ==
    IF csc_formats = <<>> THEN <<>>
    ELSE LET n == Len(csc_formats)
             src_type == etype_str_to_tuple(csc_formats[n][1])[1]
         IN  bucket_append(collect_indices(SubSeq(csc_formats, 1, n - 1)),
                           src_type, csc_formats[n][2].indices)

\* Variant: every edge type takes its source type's whole relabeling.
RECURSIVE map_back_csc_whole(_, _)
map_back_csc_whole(csc_formats, compacted_indices) ==
    IF csc_formats = <<>> THEN <<>>
    ELSE LET etype == Head(csc_formats)[1]
             src_type == etype_str_to_tuple(etype)[1]
         IN  (etype :> CSCFormatBase(Head(csc_formats)[2].indptr,
                                     compacted_indices[src_type]))
             @@ map_back_csc_whole(Tail(csc_formats), compacted_indices)

\* Variant: the relabeling is not advanced past an edge type's elements.
RECURSIVE map_back_csc_no_advance(_, _)
map_back_csc_no_advance(csc_formats, compacted_indices) ==
    IF csc_formats = <<>> THEN <<>>
    ELSE LET etype == Head(csc_formats)[1]
             num_elem == Len(Head(csc_formats)[2].indices)
             src_type == etype_str_to_tuple(etype)[1]
         IN  (etype :> CSCFormatBase(Head(csc_formats)[2].indptr,
                                     take(compacted_indices[src_type], num_elem)))
             @@ map_back_csc_no_advance(Tail(csc_formats), compacted_indices)

\* "Map back with the same order": every edge type keeps its indptr and
\* takes the next num_elem elements of its source type's relabeling.
RECURSIVE map_back_csc(_, _)
map_back_csc(csc_formats, compacted_indices) ==
    IF csc_formats = <<>> THEN <<>>
    ELSE LET etype == Head(csc_formats)[1]
             csc_format == Head(csc_formats)[2]
             num_elem == Len(csc_format.indices)
             src_type == etype_str_to_tuple(etype)[1]
             indice == take(compacted_indices[src_type], num_elem)
             indptr == csc_format.indptr
             rest == [compacted_indices EXCEPT ![src_type] = drop(@, num_elem)]
         IN  (etype :> CSCFormatBase(indptr, indice))
             @@ map_back_csc(Tail(csc_formats), rest)

\* The results of the call.
unique_and_compact_csc_formats(csc_formats_arg, unique_dst_nodes_arg, is_homogeneous) ==
    LET csc_formats ==
            IF is_homogeneous THEN <<<<HomoEdgeType, csc_formats_arg>>>>
            ELSE csc_formats_arg
        unique_dst_nodes ==
            IF is_homogeneous THEN (HomoNodeType :> unique_dst_nodes_arg)
            ELSE unique_dst_nodes_arg
        indices == collect_indices(csc_formats)
        ntypes == DOMAIN indices
        relabelings ==
            Product([t \in ntypes |->
                ops_unique_and_compact(get(indices, t, <<>>), <<>>,
                                       get(unique_dst_nodes, t, <<>>))])
    IN  {LET unique_nodes == [t \in ntypes |-> r[t][1]]
             compacted_csc_formats ==
                 map_back_csc(csc_formats, [t \in ntypes |-> r[t][2]])
         IN  IF is_homogeneous
             THEN [unique_nodes |-> unique_nodes[HomoNodeType],
                   compacted_csc_formats |-> compacted_csc_formats[HomoEdgeType]]
             ELSE [unique_nodes |-> unique_nodes,
                   compacted_csc_formats |-> compacted_csc_formats] :
           r \in relabelings}

(***************************************************************************)
(* compact_csc_format(csc_formats, dst_nodes)                              *)
(***************************************************************************)
\* The two assertions on a block; indptr[-1] of an empty indptr fails too.
last_of_indptr_is_len(csc_format) ==
    /\ Len(csc_format.indptr) > 0
    /\ csc_format.indptr[Len(csc_format.indptr)] = Len(csc_format.indices)

seeds_correspond(dst, csc_format) == Len(dst) + 1 = Len(csc_format.indptr)

Raised == [raised |-> TRUE]

\* Variant: the offset of an edge type is read after its indices are appended.
RECURSIVE compact_loop_offset_after_append(_, _, _, _)
compact_loop_offset_after_append(csc_formats, dst_nodes, original_row_ids, compacted_csc_formats) ==
    IF csc_formats = <<>>
    THEN [raised |-> FALSE, original_row_ids |-> original_row_ids,
          compacted_csc_formats |-> compacted_csc_formats]
    ELSE LET etype == Head(csc_formats)[1]
             csc_format == Head(csc_formats)[2]
             ty == etype_str_to_tuple(etype)
             src_type == ty[1]
             dst_type == ty[3]
             offset == Len(get(original_row_ids, src_type, <<>>)) + Len(csc_format.indices)
         IN  IF ~last_of_indptr_is_len(csc_format) THEN Raised
             ELSE IF ~seeds_correspond(dst_nodes[dst_type], csc_format) THEN Raised
             ELSE compact_loop_offset_after_append(
                     Tail(csc_formats), dst_nodes,
                     (src_type :> (get(original_row_ids, src_type, <<>>)
                                   \o csc_format.indices))
                         @@ original_row_ids,
                     (etype :> CSCFormatBase(
                                  csc_format.indptr,
                                  arange_plus(Len(csc_format.indices), offset)))
                         @@ compacted_csc_formats)

\* Variant: the indices of an edge type go in front of what its source type
\* has accumulated, the offset being as in the code.
RECURSIVE compact_loop_prepending(_, _, _, _)
compact_loop_prepending(csc_formats, dst_nodes, original_row_ids, compacted_csc_formats) ==
    IF csc_formats = <<>>
    THEN [raised |-> FALSE, original_row_ids |-> original_row_ids,
          compacted_csc_formats |-> compacted_csc_formats]
    ELSE LET etype == Head(csc_formats)[1]
             csc_format == Head(csc_formats)[2]
             ty == etype_str_to_tuple(etype)
             src_type == ty[1]
             dst_type == ty[3]
             offset == Len(get(original_row_ids, src_type, <<>>))
         IN  IF ~last_of_indptr_is_len(csc_format) THEN Raised
             ELSE IF ~seeds_correspond(dst_nodes[dst_type], csc_format) THEN Raised
             ELSE compact_loop_prepending(
                     Tail(csc_formats), dst_nodes,
                     (src_type :> (csc_format.indices
                                   \o get(original_row_ids, src_type, <<>>)))
                         @@ original_row_ids,
                     (etype :> CSCFormatBase(
                                  csc_format.indptr,
                                  arange_plus(Len(csc_format.indices), offset)))
                         @@ compacted_csc_formats)

\* Variant: the offset of an edge type is the number of destination nodes
\* of its source type, whatever was appended before.
RECURSIVE compact_loop_fixed_offset(_, _, _, _)
compact_loop_fixed_offset(csc_formats, dst_nodes, original_row_ids, compacted_csc_formats) ==
    IF csc_formats = <<>>
    THEN [raised |-> FALSE, original_row_ids |-> original_row_ids,
          compacted_csc_formats |-> compacted_csc_formats]
    ELSE LET etype == Head(csc_formats)[1]
             csc_format == Head(csc_formats)[2]
             ty == etype_str_to_tuple(etype)
         IN  IF ~last_of_indptr_is_len(csc_format) THEN Raised
             ELSE IF ~seeds_correspond(dst_nodes[ty[3]], csc_format) THEN Raised
             ELSE compact_loop_fixed_offset(
                     Tail(csc_formats), dst_nodes,
                     (ty[1] :> (get(original_row_ids, ty[1], <<>>) \o csc_format.indices))
                         @@ original_row_ids,
                     (etype :> CSCFormatBase(
                                  csc_format.indptr,
                                  arange_plus(Len(csc_format.indices),
                                              Len(get(dst_nodes, ty[1], <<>>)))))
                         @@ compacted_csc_formats)

\* Variant: the assertion on the seed nodes is left out.
RECURSIVE compact_loop_no_seed_check(_, _, _, _)
compact_loop_no_seed_check(csc_formats, dst_nodes, original_row_ids, compacted_csc_formats) ==
    IF csc_formats = <<>>
    THEN [raised |-> FALSE, original_row_ids |-> original_row_ids,
          compacted_csc_formats |-> compacted_csc_formats]
    ELSE LET etype == Head(csc_formats)[1]
             csc_format == Head(csc_formats)[2]
             ty == etype_str_to_tuple(etype)
             offset == Len(get(original_row_ids, ty[1], <<>>))
         IN  IF ~last_of_indptr_is_len(csc_format) THEN Raised
             ELSE compact_loop_no_seed_check(
                     Tail(csc_formats), dst_nodes,
                     (ty[1] :> (get(original_row_ids, ty[1], <<>>) \o csc_format.indices))
                         @@ original_row_ids,
                     (etype :> CSCFormatBase(
                                  csc_format.indptr,
                                  arange_plus(Len(csc_format.indices), offset)))
                         @@ compacted_csc_formats)

\* The loop over csc_formats.items() of the heterogeneous branch, from the
\* dicts built so far; a failed assertion ends the call.
RECURSIVE compact_loop(_, _, _, _)
compact_loop(csc_formats, dst_nodes, original_row_ids, compacted_csc_formats) ==
    IF csc_formats = <<>>
    THEN [raised |-> FALSE, original_row_ids |-> original_row_ids,
          compacted_csc_formats |-> compacted_csc_formats]
    ELSE LET etype == Head(csc_formats)[1]
             csc_format == Head(csc_formats)[2]
             ty == etype_str_to_tuple(etype)
             src_type == ty[1]
             dst_type == ty[3]
             offset == Len(get(original_row_ids, src_type, <<>>))
         IN  IF ~last_of_indptr_is_len(csc_format) THEN Raised
             ELSE IF ~seeds_correspond(dst_nodes[dst_type], csc_format) THEN Raised
             ELSE compact_loop(
                     Tail(csc_formats), dst_nodes,
                     (src_type :> (get(original_row_ids, src_type, <<>>)
                                   \o csc_format.indices))
                         @@ original_row_ids,
                     (etype :> CSCFormatBase(
                                  csc_format.indptr,
                                  arange_plus(Len(csc_format.indices), offset)))
                         @@ compacted_csc_formats)

\* Variant: the homogeneous branch leaves the range of indices unshifted.
compact_csc_format_homogeneous_unshifted(csc_formats, dst_nodes, is_homogeneous) ==
    IF is_homogeneous
    THEN IF ~last_of_indptr_is_len(csc_formats) THEN Raised
         ELSE IF ~seeds_correspond(dst_nodes, csc_formats) THEN Raised
         ELSE [raised |-> FALSE,
               original_row_ids |-> dst_nodes \o csc_formats.indices,
               compacted_csc_formats |->
                   CSCFormatBase(csc_formats.indptr,
                                 arange_plus(Len(csc_formats.indices), 0))]
    ELSE compact_loop(csc_formats, dst_nodes, dst_nodes, <<>>)

\* The outcome of the call: raised, or the two values returned.
compact_csc_format(csc_formats, dst_nodes, is_homogeneous) ==
    IF is_homogeneous
    THEN IF ~last_of_indptr_is_len(csc_formats) THEN Raised
         ELSE IF ~seeds_correspond(dst_nodes, csc_formats) THEN Raised
         ELSE LET offset == Len(dst_nodes)
              IN  [raised |-> FALSE,
                   original_row_ids |-> dst_nodes \o csc_formats.indices,
                   compacted_csc_formats |->
                       CSCFormatBase(csc_formats.indptr,
                                     arange_plus(Len(csc_formats.indices), offset))]
    ELSE compact_loop(csc_formats, dst_nodes, dst_nodes, <<>>)

(***************************************************************************)
(* Inputs of the two CSC operations.                                       *)
(***************************************************************************)
\* The tensors of n different IDs.
DistinctSeqs(n) == {t \in SeqsOfLen(Ids, n) : Cardinality(Range(t)) = n}

\* The destination tables over the node types T with at most n nodes in all.
RECURSIVE DstTables(_, _)
DstTables(T, n) ==
    IF T = {} THEN {<<>>}
    ELSE LET t == CHOOSE x \in T : TRUE
         IN  UNION {{(t :> d) @@ rest : d \in DistinctSeqs(k),
                                        rest \in DstTables(T \ {t}, n - k)} :
                      k \in 0 .. n}

\* The indptr of a block of n_dst destinations and m indices.
Indptrs(n_dst, m) ==
    {ip \in SeqsOfLen(0 .. m, n_dst + 1) :
        /\ ip[1] = 0
        /\ ip[n_dst + 1] = m
        /\ \A i \in 1 .. n_dst : ip[i] <= ip[i + 1]}

Blocks(n_dst, m) ==
    {CSCFormatBase(ip, ix) : ip \in Indptrs(n_dst, m), ix \in SeqsOfLen(Ids, m)}

\* The dicts of well-formed blocks of the edge types es, in this order, for
\* the destination table dst_nodes, with at most n indices in all.
RECURSIVE CscDicts(_, _, _)
CscDicts(es, dst_nodes, n) ==
    IF es = <<>> THEN {<<>>}
    ELSE LET n_dst == Len(dst_nodes[etype_str_to_tuple(Head(es))[3]])
         IN  UNION {{<<<<Head(es), b>>>> \o rest :
                        b \in Blocks(n_dst, m),
                        rest \in CscDicts(Tail(es), dst_nodes, n - m)} :
                      m \in 0 .. n}

dst_types(es) == {etype_str_to_tuple(es[i])[3] : i \in 1 .. Len(es)}

\* A block that violates one of the two conditions on a block: its last
\* indptr entry is not the number of indices, or it has an indptr entry too
\* many for the seed nodes.
Defects == {"none", "last", "length"}

defective(csc_format, defect) ==
    LET ip == csc_format.indptr
    IN  CASE defect = "none" -> csc_format
          [] defect = "last" ->
               CSCFormatBase([ip EXCEPT ![Len(ip)] = @ + 1], csc_format.indices)
          [] defect = "length" ->
               CSCFormatBase(Append(ip, ip[Len(ip)]), csc_format.indices)

CscCall(csc_formats, dst_nodes, is_homogeneous) ==
    [csc_formats |-> csc_formats, dst_nodes |-> dst_nodes,
     is_homogeneous |-> is_homogeneous]

\* The calls: destination nodes and indices are at most MaxCsc in all; a
\* call of compact_csc_format may have a defect in one of its blocks.
InitCsc ==
    /\ op \in {"unique_and_compact_csc_formats", "compact_csc_format"}
    /\ \/ \E k \in 0 .. MaxCsc : \E d \in DistinctSeqs(k) :
          \E m \in 0 .. MaxCsc - k : \E b \in Blocks(k, m) :
          \E defect \in Defects :
             /\ defect # "none" => op = "compact_csc_format"
             /\ args = CscCall(defective(b, defect), d, TRUE)
       \/ \E es \in EdgeTypeOrders :
          \E k \in 0 .. MaxCsc : \E d \in DstTables(dst_types(es), k) :
             /\ total_len(d) = k
             /\ \E cs \in CscDicts(es, d, MaxCsc - k) :
                \E i \in 1 .. Len(es) : \E defect \in Defects :
                   /\ defect # "none" => op = "compact_csc_format"
                   /\ defect = "none" => i = 1
                   /\ args = CscCall([cs EXCEPT ![i][2] = defective(@, defect)],
                                     d, FALSE)
    /\ pc = "call"
    /\ ret = <<>>
    /\ NoStore

UniqueAndCompactCscFormats ==
    /\ op = "unique_and_compact_csc_formats"
    /\ pc = "call"
    /\ \E r \in unique_and_compact_csc_formats(args.csc_formats, args.dst_nodes,
                                               args.is_homogeneous) :
          ret' = r
    /\ pc' = "return"
    /\ UNCHANGED <<op, args, features, workers>>

CompactCscFormat ==
    /\ op = "compact_csc_format"
    /\ pc = "call"
    /\ LET r == compact_csc_format(args.csc_formats, args.dst_nodes,
                                   args.is_homogeneous)
       IN  IF r.raised
           THEN pc' = "raise" /\ ret' = <<>>
           ELSE /\ pc' = "return"
                /\ ret' = [original_row_ids |-> r.original_row_ids,
                           compacted_csc_formats |-> r.compacted_csc_formats]
    /\ UNCHANGED <<op, args, features, workers>>

NextCsc == UniqueAndCompactCscFormats \/ CompactCscFormat

SpecCsc == InitCsc /\ [][NextCsc]_vars

(***************************************************************************)
(* Properties of the two CSC operations.                                   *)
(***************************************************************************)
CscUniqueReturned == op = "unique_and_compact_csc_formats" /\ pc = "return"
CscCompactReturned == op = "compact_csc_format" /\ pc = "return"

\* The edge types of the call's dict, in its order.
csc_etypes == [i \in 1 .. Len(args.csc_formats) |-> args.csc_formats[i][1]]

\* C5: after unique_and_compact_csc_formats, for every edge type of the
\* input, indexing the unique IDs of its source type by the rewritten
\* indices gives the block's original indices, element for element.
C5_CscIndicesMapBack ==
    CscUniqueReturned =>
        IF args.is_homogeneous
        THEN maps_back(ret.unique_nodes, ret.compacted_csc_formats.indices,
                       args.csc_formats.indices)
        ELSE /\ DOMAIN ret.compacted_csc_formats = Range(csc_etypes)
             /\ \A i \in 1 .. Len(args.csc_formats) :
                   LET etype == args.csc_formats[i][1]
                       src_type == etype_str_to_tuple(etype)[1]
                   IN  /\ src_type \in DOMAIN ret.unique_nodes
                       /\ maps_back(ret.unique_nodes[src_type],
                                    ret.compacted_csc_formats[etype].indices,
                                    args.csc_formats[i][2].indices)

\* Two edge types with the same source type, n1:e1:n2 before n1:e2:n1, each
\* with one index, the two indices different, have been compacted.
C5_Witness ==
    /\ CscUniqueReturned
    /\ ~args.is_homogeneous
    /\ csc_etypes = <<EdgeTypeList[1], EdgeTypeList[2]>>
    /\ Len(args.csc_formats[1][2].indices) = 1
    /\ Len(args.csc_formats[2][2].indices) = 1
    /\ args.csc_formats[1][2].indices # args.csc_formats[2][2].indices

\* The block out keeps the indptr and the number of indices of the block in.
same_structure(in, out) ==
    /\ out.indptr = in.indptr
    /\ Len(out.indices) = Len(in.indices)
    /\ (Len(in.indptr) > 0 /\ in.indptr[Len(in.indptr)] = Len(in.indices))
           => out.indptr[Len(out.indptr)] = Len(out.indices)

\* C6: unique_and_compact_csc_formats and compact_csc_format return, for
\* every edge type, a block with the indptr of the input block and as many
\* indices as the input block, so indptr[-1] = len(indices) holds after the
\* call when it held before.
C6_IndptrUntouched ==
    (CscUniqueReturned \/ CscCompactReturned) =>
        IF args.is_homogeneous
        THEN same_structure(args.csc_formats, ret.compacted_csc_formats)
        ELSE /\ DOMAIN ret.compacted_csc_formats = Range(csc_etypes)
             /\ \A i \in 1 .. Len(args.csc_formats) :
                   same_structure(args.csc_formats[i][2],
                                  ret.compacted_csc_formats[args.csc_formats[i][1]])

\* unique_and_compact_csc_formats has returned for two blocks of one source
\* type, the first with an index and two indptr entries.
C6_Witness ==
    /\ CscUniqueReturned
    /\ ~args.is_homogeneous
    /\ Len(args.csc_formats) = 2
    /\ etype_str_to_tuple(csc_etypes[1])[1] = etype_str_to_tuple(csc_etypes[2])[1]
    /\ Len(args.csc_formats[1][2].indptr) = 2
    /\ Len(args.csc_formats[1][2].indices) = 1
    /\ Len(args.csc_formats[2][2].indices) = 1

\* C7: after unique_and_compact_csc_formats, for every node type t of the
\* unique_dst_nodes supplied, the unique IDs returned have an entry for t
\* that holds every node of unique_dst_nodes[t], also when t is the source
\* type of no edge type.
C7_CscDestinationsRetained ==
    CscUniqueReturned =>
        IF args.is_homogeneous
        THEN Range(args.dst_nodes) \subseteq Range(ret.unique_nodes)
        ELSE \A t \in DOMAIN args.dst_nodes :
                \A x \in Range(args.dst_nodes[t]) :
                   /\ t \in DOMAIN ret.unique_nodes
                   /\ x \in Range(ret.unique_nodes[t])

\* C8: after compact_csc_format, for every edge type with source type s,
\* indexing original_row_ids[s] by the rewritten indices gives the original
\* indices of the edge type, element for element, duplicates included.
C8_OriginalRowIdsMapBack ==
    CscCompactReturned =>
        IF args.is_homogeneous
        THEN maps_back(ret.original_row_ids, ret.compacted_csc_formats.indices,
                       args.csc_formats.indices)
        ELSE /\ DOMAIN ret.compacted_csc_formats = Range(csc_etypes)
             /\ \A i \in 1 .. Len(args.csc_formats) :
                   LET etype == args.csc_formats[i][1]
                       src_type == etype_str_to_tuple(etype)[1]
                   IN  /\ src_type \in DOMAIN ret.original_row_ids
                       /\ maps_back(ret.original_row_ids[src_type],
                                    ret.compacted_csc_formats[etype].indices,
                                    args.csc_formats[i][2].indices)

\* compact_csc_format has returned for n1:e2:n1 before n1:e1:n2: the source
\* type n1 of both is a destination type too, and the two blocks hold
\* different indices.
C8_Witness ==
    /\ CscCompactReturned
    /\ ~args.is_homogeneous
    /\ csc_etypes = <<EdgeTypeList[2], EdgeTypeList[1]>>
    /\ Len(args.csc_formats[1][2].indices) = 1
    /\ Len(args.csc_formats[2][2].indices) = 1
    /\ args.csc_formats[1][2].indices # args.csc_formats[2][2].indices
    /\ args.csc_formats[1][2].indices # args.dst_nodes["n1"]

\* The block violates a precondition of compact_csc_format for the
\* destination nodes dst.
violates_precondition(csc_format, dst) ==
    \/ Len(csc_format.indptr) = 0
    \/ csc_format.indptr[Len(csc_format.indptr)] # Len(csc_format.indices)
    \/ Len(dst) + 1 # Len(csc_format.indptr)

some_block_violates ==
    IF args.is_homogeneous
    THEN violates_precondition(args.csc_formats, args.dst_nodes)
    ELSE \E i \in 1 .. Len(args.csc_formats) :
            violates_precondition(
                args.csc_formats[i][2],
                args.dst_nodes[etype_str_to_tuple(args.csc_formats[i][1])[3]])

\* C9: a call of compact_csc_format with a block whose last indptr entry is
\* not its number of indices, or whose indptr is not one longer than the
\* destination nodes of its destination type, ends by raising, without a
\* result, for a homogeneous input and for any edge type of a dict.
C9_PreconditionRaises ==
    (op = "compact_csc_format" /\ pc # "call" /\ some_block_violates)
        => pc = "raise"

\* The call has raised on a dict whose first block is well-formed and whose
\* second block has an indptr entry too many.
C9_Witness ==
    /\ op = "compact_csc_format"
    /\ pc = "raise"
    /\ ~args.is_homogeneous
    /\ Len(args.csc_formats) = 2
    /\ ~violates_precondition(
           args.csc_formats[1][2],
           args.dst_nodes[etype_str_to_tuple(args.csc_formats[1][1])[3]])
    /\ LET b == args.csc_formats[2][2]
       IN  /\ b.indptr[Len(b.indptr)] = Len(b.indices)
           /\ Len(b.indices) > 0
           /\ Len(args.dst_nodes[etype_str_to_tuple(args.csc_formats[2][1])[3]]) + 1
                  # Len(b.indptr)

(***************************************************************************)
(* add_reverse_edges(edges, reverse_etypes_mapping)                        *)
(*                                                                         *)
(* For every entry etype -> reverse_etype of the mapping, in the order of  *)
(* the mapping, the swapped (dst, src) pair of the edges of etype is       *)
(* appended to the edges of reverse_etype.  One pass over the entries;     *)
(* without a mapping every type is reversed onto itself.                   *)
(***************************************************************************)
RevTypeList ==
    <<<<"A", ":", "r1", ":", "B">>,
      <<"B", ":", "r2", ":", "C">>,
      <<"C", ":", "r3", ":", "A">>>>

RevTypes == Range(RevTypeList)

\* edges.flip: the pair with source and destination swapped.
flip(pair) == <<pair[2], pair[1]>>

\* Variant: the appended edges are put before the existing ones.
cat_pairs_appended_first(a, b) == <<b[1] \o a[1], b[2] \o a[2]>>

\* torch.cat of two pairs of edges.
cat_pairs(a, b) == <<a[1] \o b[1], a[2] \o b[2]>>

\* Variant: the reversed edges are taken from the edges combined so far.
RECURSIVE reverse_loop_from_combined(_, _, _)
reverse_loop_from_combined(entries, edges, combined_edges) ==
    IF entries = <<>> THEN combined_edges
    ELSE LET etype == Head(entries)[1]
             reverse_etype == Head(entries)[2]
         IN  reverse_loop_from_combined(
                 Tail(entries), edges,
                 [combined_edges EXCEPT
                     ![reverse_etype] = cat_pairs(@, flip(combined_edges[etype]))])

\* The pass over the entries of the mapping, from the edges combined so far.
RECURSIVE reverse_loop(_, _, _)
reverse_loop(entries, edges, combined_edges) ==
    IF entries = <<>> THEN combined_edges
    ELSE LET etype == Head(entries)[1]
             reverse_etype == Head(entries)[2]
             reverse_edges == flip(edges[etype])
         IN  reverse_loop(
                 Tail(entries), edges,
                 [combined_edges EXCEPT
                     ![reverse_etype] = cat_pairs(@, reverse_edges)])

\* The entries that reverse every type of edges onto itself.
self_mapping(edges) ==
    SelectSeq([i \in 1 .. Len(RevTypeList) |-> <<RevTypeList[i], RevTypeList[i]>>],
              LAMBDA e : e[1] \in DOMAIN edges)

add_reverse_edges(edges, reverse_etypes_mapping, is_homogeneous) ==
    IF is_homogeneous THEN cat_pairs(edges, flip(edges))
    ELSE reverse_loop(IF reverse_etypes_mapping.none THEN self_mapping(edges)
                      ELSE reverse_etypes_mapping.value,
                      edges, edges)

(***************************************************************************)
(* Inputs of add_reverse_edges.                                            *)
(***************************************************************************)
\* The dicts of edges over the edge types T with at most n edges in all.
RECURSIVE EdgeDicts(_, _)
EdgeDicts(T, n) ==
    IF T = {} THEN {<<>>}
    ELSE LET t == CHOOSE x \in T : TRUE
         IN  UNION {{(t :> pr) @@ rest : pr \in EdgePairs(k),
                                         rest \in EdgeDicts(T \ {t}, n - k)} :
                      k \in 0 .. n}

\* The mappings: a dict on some of the edge types, listed along RevTypeList,
\* each with any edge type as its reverse type.
ReverseMappings ==
    LET keys == {sorted_seq(S) : S \in SUBSET (1 .. Len(RevTypeList))}
    IN  UNION {{[i \in 1 .. Len(ks) |-> <<RevTypeList[ks[i]], f[i]>>] :
                   f \in SeqsOfLen(RevTypes, Len(ks))} : ks \in keys}

ReverseCall(edges, reverse_etypes_mapping, is_homogeneous) ==
    [edges |-> edges, reverse_etypes_mapping |-> reverse_etypes_mapping,
     is_homogeneous |-> is_homogeneous]

InitReverse ==
    /\ op = "add_reverse_edges"
    /\ \/ \E k \in 0 .. MaxRev : \E pr \in EdgePairs(k) :
             args = ReverseCall(pr, None, TRUE)
       \/ \E edges \in EdgeDicts(RevTypes, MaxRev) :
             \/ args = ReverseCall(edges, None, FALSE)
             \/ \E m \in ReverseMappings : args = ReverseCall(edges, Some(m), FALSE)
    /\ pc = "call"
    /\ ret = <<>>
    /\ NoStore

AddReverseEdges ==
    /\ op = "add_reverse_edges"
    /\ pc = "call"
    /\ ret' = add_reverse_edges(args.edges, args.reverse_etypes_mapping,
                                args.is_homogeneous)
    /\ pc' = "return"
    /\ UNCHANGED <<op, args, features, workers>>

NextReverse == AddReverseEdges

SpecReverse == InitReverse /\ [][NextReverse]_vars

(***************************************************************************)
(* Properties of add_reverse_edges.                                        *)
(***************************************************************************)
ReverseReturned == op = "add_reverse_edges" /\ pc = "return"

\* The swapped input edges of the sources of the entries with target t, in
\* the order of the entries.
RECURSIVE reversed_onto(_, _, _)
reversed_onto(entries, edges, t) ==
    IF entries = <<>> THEN <<<<>>, <<>>>>
    ELSE cat_pairs(IF Head(entries)[2] = t
                   THEN <<edges[Head(entries)[1]][2], edges[Head(entries)[1]][1]>>
                   ELSE <<<<>>, <<>>>>,
                   reversed_onto(Tail(entries), edges, t))

\* C10: add_reverse_edges with a mapping returns, for every edge type t, the
\* input edges of t followed by the swapped input edges of s for every entry
\* s -> t of the mapping, each once; a type that is the target of no entry
\* is returned as it was; the call returns for every mapping, cyclic or not.
C10_SinglePass ==
    /\ (op = "add_reverse_edges" /\ pc = "call") => ENABLED AddReverseEdges
    /\ (ReverseReturned /\ ~args.is_homogeneous /\ ~args.reverse_etypes_mapping.none) =>
          LET entries == args.reverse_etypes_mapping.value
          IN  /\ DOMAIN ret = DOMAIN args.edges
              /\ \A t \in DOMAIN args.edges :
                    /\ ret[t] = cat_pairs(args.edges[t],
                                          reversed_onto(entries, args.edges, t))
                    /\ (\A i \in 1 .. Len(entries) : entries[i][2] # t)
                           => ret[t] = args.edges[t]

\* The call has returned for the mapping that is the cycle of the three
\* edge types, two of which have an edge.
C10_Witness ==
    /\ ReverseReturned
    /\ ~args.is_homogeneous
    /\ ~args.reverse_etypes_mapping.none
    /\ args.reverse_etypes_mapping.value =
           <<<<RevTypeList[1], RevTypeList[2]>>,
             <<RevTypeList[2], RevTypeList[3]>>,
             <<RevTypeList[3], RevTypeList[1]>>>>
    /\ Len(args.edges[RevTypeList[1]][1]) = 1
    /\ Len(args.edges[RevTypeList[2]][1]) = 1
    /\ args.edges[RevTypeList[1]][1] # args.edges[RevTypeList[1]][2]

\* The pair (src ++ dst, dst ++ src) of a pair of edges (src, dst).
with_self_reverse(pair) == <<pair[1] \o pair[2], pair[2] \o pair[1]>>

\* C11: add_reverse_edges without a mapping reverses every type onto itself:
\* the edges (src, dst) of a type (or of the homogeneous graph) come back as
\* (src ++ dst, dst ++ src), the existing edges first and their reverses
\* after them.
C11_DefaultSelfReverse ==
    (ReverseReturned /\ args.reverse_etypes_mapping.none) =>
        IF args.is_homogeneous
        THEN ret = with_self_reverse(args.edges)
        ELSE /\ DOMAIN ret = DOMAIN args.edges
             /\ \A t \in DOMAIN args.edges :
                    ret[t] = with_self_reverse(args.edges[t])

\* The call has returned without a mapping for a dict in which one edge type
\* has two edges whose sources differ from their destinations.
C11_Witness ==
    /\ ReverseReturned
    /\ args.reverse_etypes_mapping.none
    /\ ~args.is_homogeneous
    /\ \E t \in DOMAIN args.edges :
          /\ Len(args.edges[t][1]) = 2
          /\ args.edges[t][1] # args.edges[t][2]
          /\ ret[t][1] = args.edges[t][1] \o args.edges[t][2]

(***************************************************************************)
(* Feature store.  A tensor is its shape and its rows: shape[1] rows, each *)
(* the sequence of the elements of one row (one element when the tensor is *)
(* one-dimensional).  ids is a one-dimensional tensor of row indices, a    *)
(* sequence of integers; a negative index counts from the end, as in       *)
(* python.  The outcome of a call is the exception raised ("" for none)    *)
(* and the value returned.                                                 *)
(***************************************************************************)
Tensor(shape, rows) == [shape |-> shape, rows |-> rows]

\* len(tensor)
len(tensor) == tensor.shape[1]

Returns(value) == [raised |-> "", value |-> value]
Raises(exception) == [raised |-> exception, value |-> <<>>]

\* Index i addresses a row of a tensor of n rows; the position of that row.
valid_index(n, i) == -n <= i /\ i < n
position(n, i) == (IF i < 0 THEN i + n ELSE i) + 1

\* Variant: the rows are gathered in ascending order of their positions.
tensor_getitem_sorted(tensor, ids) ==
    IF \E i \in 1 .. Len(ids) : ~valid_index(len(tensor), ids[i])
    THEN Raises("IndexError")
    ELSE LET at == [i \in 1 .. Len(ids) |-> position(len(tensor), ids[i])]
             RECURSIVE ascending(_)
             ascending(S) ==
                 IF S = {} THEN <<>>
                 ELSE LET m == CHOOSE x \in S : \A y \in S : x <= y
                      IN  <<tensor.rows[m]>> \o ascending(S \ {m})
             rows == ascending(Range(at))
         IN  Returns(Tensor(<<Len(rows)>> \o Tail(tensor.shape), rows))

\* Variant: an index past the end reads the last row.
tensor_getitem_clamped(tensor, ids) ==
    IF len(tensor) = 0 /\ ids # <<>> THEN Raises("IndexError")
    ELSE LET n == len(tensor)
             at(i) == IF i >= n THEN n ELSE IF i < -n THEN 1 ELSE position(n, i)
         IN  Returns(Tensor(<<Len(ids)>> \o Tail(tensor.shape),
                            [i \in 1 .. Len(ids) |-> tensor.rows[at(ids[i])]]))

\* tensor[ids]: the rows at ids, in the order of ids.
tensor_getitem(tensor, ids) ==
    IF \E i \in 1 .. Len(ids) : ~valid_index(len(tensor), ids[i])
    THEN Raises("IndexError")
    ELSE Returns(Tensor(<<Len(ids)>> \o Tail(tensor.shape),
                        [i \in 1 .. Len(ids) |->
                            tensor.rows[position(len(tensor), ids[i])]]))

\* tensor[ids] = value, the rows of value having the shape of the rows of
\* tensor: row ids[i] becomes value[i].  Of the rows written to one position
\* any one may stay (torch leaves the result of duplicate indices undefined),
\* and when an index is out of bounds IndexError is raised after any of the
\* other rows may have been written.  The set of the outcomes.
tensor_setitem(tensor, ids, value) ==
    LET n == len(tensor)
        bad == \E i \in 1 .. Len(ids) : ~valid_index(n, ids[i])
        written(p) == {value.rows[i] : i \in {j \in 1 .. Len(ids) :
                          valid_index(n, ids[j]) /\ position(n, ids[j]) = p}}
        choices == [p \in 1 .. n |->
                       IF written(p) = {} THEN {tensor.rows[p]}
                       ELSE IF bad THEN written(p) \cup {tensor.rows[p]}
                       ELSE written(p)]
    IN  {[raised |-> IF bad THEN "IndexError" ELSE "",
          tensor |-> Tensor(tensor.shape, [p \in 1 .. n |-> f[p]])] :
            f \in Product(choices)}

(***************************************************************************)
(* TorchBasedFeature: read, size and update of the wrapped tensor.         *)
(***************************************************************************)
TorchBasedFeature_read(tensor, ids) ==
    IF ids.none THEN Returns(tensor)
    ELSE tensor_getitem(tensor, ids.value)

\* Variant: the size is the number of rows whatever ids.
TorchBasedFeature_size_of_whole(tensor, ids) == Returns(len(tensor))

TorchBasedFeature_size(tensor, ids) ==
    IF ids.none THEN Returns(len(tensor))
    ELSE LET rows == tensor_getitem(tensor, ids.value)
         IN  IF rows.raised # "" THEN rows ELSE Returns(len(rows.value))

\* Variant: with ids, the feature is bound to value instead of written to.
TorchBasedFeature_update_rebinding(tensor, value, ids) ==
    IF ids.none
    THEN IF tensor.shape # value.shape
         THEN {[raised |-> "AssertionError", tensor |-> tensor]}
         ELSE {[raised |-> "", tensor |-> Tensor(tensor.shape, value.rows)]}
    ELSE IF Len(ids.value) # len(value)
         THEN {[raised |-> "AssertionError", tensor |-> tensor]}
         ELSE {[raised |-> "", tensor |-> value]}

\* Variant: without ids, the lengths are compared instead of the shapes.
TorchBasedFeature_update_by_length(tensor, value, ids) ==
    IF ids.none
    THEN IF len(tensor) # len(value)
         THEN {[raised |-> "AssertionError", tensor |-> tensor]}
         ELSE {[raised |-> "", tensor |-> Tensor(tensor.shape, value.rows)]}
    ELSE IF Len(ids.value) # len(value)
         THEN {[raised |-> "AssertionError", tensor |-> tensor]}
         ELSE tensor_setitem(tensor, ids.value, value)

\* The outcomes of update: the exception raised and the tensor afterwards.
TorchBasedFeature_update(tensor, value, ids) ==
    IF ids.none
    THEN IF tensor.shape # value.shape
         THEN {[raised |-> "AssertionError", tensor |-> tensor]}
         ELSE {[raised |-> "", tensor |-> Tensor(tensor.shape, value.rows)]}
    ELSE IF Len(ids.value) # len(value)
         THEN {[raised |-> "AssertionError", tensor |-> tensor]}
         ELSE tensor_setitem(tensor, ids.value, value)

(***************************************************************************)
(* BasicFeatureStore: a dict from the key (domain, type_name,              *)
(* feature_name) to a feature, in insertion order: the sequence of the     *)
(* <<key, tensor of the feature>> pairs.  A component of a key is a string *)
(* or None.                                                                *)
(***************************************************************************)
\* The position of key in the dict, 0 when the dict has no such key.
dict_find(d, key) ==
    IF \E i \in 1 .. Len(d) : d[i][1] = key
    THEN CHOOSE i \in 1 .. Len(d) : d[i][1] = key
    ELSE 0

NoKey == <<None, None, None>>

BasicFeatureStore_read(d, key, ids) ==
    LET i == dict_find(d, key)
    IN  IF i = 0 THEN Raises("KeyError")
        ELSE TorchBasedFeature_read(d[i][2], ids)

\* Variant: without a key and ids, the size of the feature inserted last.
BasicFeatureStore_size_of_last(d, key, ids) ==
    IF key = NoKey /\ ids.none /\ d # <<>>
    THEN TorchBasedFeature_size(d[Len(d)][2], None)
    ELSE LET i == dict_find(d, key)
         IN  IF i = 0 THEN Raises("KeyError")
             ELSE TorchBasedFeature_size(d[i][2], ids)

BasicFeatureStore_size(d, key, ids) ==
    IF key = NoKey /\ ids.none /\ d # <<>>
    THEN TorchBasedFeature_size(d[1][2], None)
    ELSE LET i == dict_find(d, key)
         IN  IF i = 0 THEN Raises("KeyError")
             ELSE TorchBasedFeature_size(d[i][2], ids)

\* Variant: an unknown key is inserted with the value as its feature.
BasicFeatureStore_update_inserting(d, key, value, ids) ==
    LET i == dict_find(d, key)
    IN  IF i = 0 THEN {[raised |-> "", features |-> Append(d, <<key, value>>)]}
        ELSE {[raised |-> o.raised, features |-> [d EXCEPT ![i][2] = o.tensor]] :
                 o \in TorchBasedFeature_update(d[i][2], value, ids)}

\* The outcomes of update: the exception raised and the dict afterwards.
BasicFeatureStore_update(d, key, value, ids) ==
    LET i == dict_find(d, key)
    IN  IF i = 0 THEN {[raised |-> "KeyError", features |-> d]}
        ELSE {[raised |-> o.raised, features |-> [d EXCEPT ![i][2] = o.tensor]] :
                 o \in TorchBasedFeature_update(d[i][2], value, ids)}

(***************************************************************************)
(* Inputs of the feature store.                                            *)
(***************************************************************************)
FeatureValues == 0 .. MaxValue

\* The shapes of a row: a scalar, or a vector of up to MaxWidth elements.
RowShapes == {<<>>} \cup {<<w>> : w \in 1 .. MaxWidth}

\* The tensors of n rows of the shape row_shape.
Tensors(n, row_shape) ==
    {Tensor(<<n>> \o row_shape, rows) :
        rows \in SeqsOfLen(SeqsOfLen(FeatureValues,
                                     IF row_shape = <<>> THEN 1 ELSE row_shape[1]),
                           n)}

\* The keys of the stores, as in the tests, and a key of no store.
KeyList ==
    <<<<Some("node"), Some("paper"), Some("a")>>,
      <<Some("node"), None, Some("b")>>>>

MissingKey == <<Some("node"), Some("paper"), Some("b")>>

\* The keys of a store in the order of their insertion.
KeyOrders ==
    {<<>>, <<KeyList[1]>>, <<KeyList[2]>>,
     <<KeyList[1], KeyList[2]>>, <<KeyList[2], KeyList[1]>>}

\* The dicts of features with the keys keys and at most n rows in all.
RECURSIVE FeatureDicts(_, _)
FeatureDicts(keys, n) ==
    IF keys = <<>> THEN {<<>>}
    ELSE UNION {{<<<<Head(keys), t>>>> \o rest :
                    t \in Tensors(k, row_shape),
                    rest \in FeatureDicts(Tail(keys), n - k)} :
                  k \in 0 .. n, row_shape \in RowShapes}

\* ids: None, or up to MaxIdsLen indices, in bounds or not.
IdsTensors == UNION {SeqsOfLen(-1 .. MaxRows, n) : n \in 0 .. MaxIdsLen}
OptionalIds == {None} \cup {Some(ids) : ids \in IdsTensors}

\* The values of update for a feature with rows of the shape row_shape:
\* with ids, some rows of that shape; without ids, a tensor of any shape.
UpdateValues(row_shape, ids) ==
    IF ids.none
    THEN UNION {Tensors(n, rs) : n \in 0 .. MaxRows, rs \in RowShapes}
    ELSE UNION {Tensors(n, row_shape) : n \in 0 .. MaxIdsLen}

CallKeys == Range(KeyList) \cup {MissingKey}

\* The row shape of the feature of key, a scalar when there is none.
row_shape_of(d, key) ==
    IF dict_find(d, key) = 0 THEN <<>> ELSE Tail(d[dict_find(d, key)][2].shape)

InitStore ==
    /\ \E keys \in KeyOrders : features \in FeatureDicts(keys, MaxRows)
    /\ op = ""
    /\ args = <<>>
    /\ pc = "idle"
    /\ ret = <<>>
    /\ workers = <<>>

\* The end of a call: the value returned or the exception raised.
Outcome(o) ==
    IF o.raised = "" THEN pc' = "return" /\ ret' = o.value
    ELSE pc' = "raise" /\ ret' = o.raised

FeatureRead ==
    /\ pc = "idle"
    /\ \E i \in 1 .. Len(features), ids \in OptionalIds :
           /\ op' = "Feature.read"
           /\ args' = [feature |-> i, ids |-> ids]
           /\ Outcome(TorchBasedFeature_read(features[i][2], ids))
           /\ UNCHANGED <<features, workers>>

FeatureSize ==
    /\ pc = "idle"
    /\ \E i \in 1 .. Len(features), ids \in OptionalIds :
           /\ op' = "Feature.size"
           /\ args' = [feature |-> i, ids |-> ids]
           /\ Outcome(TorchBasedFeature_size(features[i][2], ids))
           /\ UNCHANGED <<features, workers>>

FeatureUpdate ==
    /\ pc = "idle"
    /\ \E i \in 1 .. Len(features), ids \in OptionalIds :
         \E value \in UpdateValues(Tail(features[i][2].shape), ids) :
           \E o \in TorchBasedFeature_update(features[i][2], value, ids) :
               /\ op' = "Feature.update"
               /\ args' = [feature |-> i, value |-> value, ids |-> ids]
               /\ features' = [features EXCEPT ![i][2] = o.tensor]
               /\ Outcome([raised |-> o.raised, value |-> <<>>])
               /\ UNCHANGED workers

FeatureStoreRead ==
    /\ pc = "idle"
    /\ \E key \in CallKeys, ids \in OptionalIds :
           /\ op' = "FeatureStore.read"
           /\ args' = [key |-> key, ids |-> ids]
           /\ Outcome(BasicFeatureStore_read(features, key, ids))
           /\ UNCHANGED <<features, workers>>

FeatureStoreSize ==
    /\ pc = "idle"
    /\ \E key \in CallKeys \cup {NoKey}, ids \in OptionalIds :
           /\ op' = "FeatureStore.size"
           /\ args' = [key |-> key, ids |-> ids]
           /\ Outcome(BasicFeatureStore_size(features, key, ids))
           /\ UNCHANGED <<features, workers>>

FeatureStoreUpdate ==
    /\ pc = "idle"
    /\ \E key \in CallKeys, ids \in OptionalIds :
         \E value \in UpdateValues(row_shape_of(features, key), ids) :
           \E o \in BasicFeatureStore_update(features, key, value, ids) :
               /\ op' = "FeatureStore.update"
               /\ args' = [key |-> key, value |-> value, ids |-> ids]
               /\ features' = o.features
               /\ Outcome([raised |-> o.raised, value |-> <<>>])
               /\ UNCHANGED workers

\* The caller takes the outcome of its call and is ready for the next one.
Resume ==
    /\ pc \in {"return", "raise"}
    /\ op \in {"Feature.read", "Feature.size", "Feature.update",
               "FeatureStore.read", "FeatureStore.size", "FeatureStore.update"}
    /\ op' = ""
    /\ args' = <<>>
    /\ pc' = "idle"
    /\ ret' = <<>>
    /\ UNCHANGED <<features, workers>>

NextStore ==
    \/ Resume
    \/ FeatureRead
    \/ FeatureSize
    \/ FeatureUpdate
    \/ FeatureStoreRead
    \/ FeatureStoreSize
    \/ FeatureStoreUpdate

SpecStore == InitStore /\ [][NextStore]_vars

(***************************************************************************)
(* Properties of the feature store.                                        *)
(***************************************************************************)
FeatureOps == {"Feature.read", "Feature.size", "Feature.update"}
FeatureStoreOps == {"FeatureStore.read", "FeatureStore.size", "FeatureStore.update"}

\* The call of operation o with the arguments a addresses a feature of the
\* dict d, and the tensor of that feature.
addresses_feature(d, o, a) ==
    IF o \in FeatureOps THEN TRUE
    ELSE o \in FeatureStoreOps /\ \E i \in 1 .. Len(d) : d[i][1] = a.key

addressed(d, o, a) ==
    IF o \in FeatureOps THEN d[a.feature][2]
    ELSE d[CHOOSE i \in 1 .. Len(d) : d[i][1] = a.key][2]

\* Row i of a tensor, i as python indexes it.
row(tensor, i) == tensor.rows[IF i < 0 THEN len(tensor) + i + 1 ELSE i + 1]

in_bounds(tensor, ids) ==
    \A i \in 1 .. Len(ids) : -len(tensor) <= ids[i] /\ ids[i] < len(tensor)

ReadCalled ==
    /\ op \in {"Feature.read", "FeatureStore.read"}
    /\ addresses_feature(features, op, args)

\* C12: read without ids returns the whole array; read(ids) with every id in
\* bounds returns as many rows as ids has, row i being array[ids[i]]: in the
\* order of ids, a repeated id giving a repeated row.
C12_ReadGathers ==
    ReadCalled =>
        LET array == addressed(features, op, args)
        IN  IF args.ids.none
            THEN pc = "return" /\ ret = array
            ELSE in_bounds(array, args.ids.value) =>
                    /\ pc = "return"
                    /\ ret.shape = <<Len(args.ids.value)>> \o Tail(array.shape)
                    /\ Len(ret.rows) = Len(args.ids.value)
                    /\ \A i \in 1 .. Len(args.ids.value) :
                          ret.rows[i] = row(array, args.ids.value[i])

\* A read through the store with ids [1, 0] of a feature whose two rows
\* differ has returned.
C12_Witness ==
    /\ op = "FeatureStore.read"
    /\ pc = "return"
    /\ ~args.ids.none
    /\ args.ids.value = <<1, 0>>
    /\ ret.rows[1] # ret.rows[2]

SizeCalled ==
    /\ op \in {"Feature.size", "FeatureStore.size"}
    /\ addresses_feature(features, op, args)

\* C13: size without ids is the number of rows of the array, and size(ids)
\* with every id in bounds is the length of ids.
C13_SizeCounts ==
    SizeCalled =>
        LET array == addressed(features, op, args)
        IN  IF args.ids.none
            THEN pc = "return" /\ ret = array.shape[1]
            ELSE in_bounds(array, args.ids.value) =>
                    pc = "return" /\ ret = Len(args.ids.value)

\* size with one id of a feature of two rows has returned, through the
\* store.
C13_Witness ==
    /\ op = "FeatureStore.size"
    /\ pc = "return"
    /\ ~args.ids.none
    /\ Len(args.ids.value) = 1
    /\ \E i \in 1 .. Len(features) :
          features[i][1] = args.key /\ len(features[i][2]) = 2

\* A call of the store with a key (not size without key and ids) that the
\* dict d does not have.
unknown_key(d, o, a) ==
    /\ o \in FeatureStoreOps
    /\ \A i \in 1 .. Len(d) : d[i][1] # a.key
    /\ ~(o = "FeatureStore.size" /\ a.key = NoKey /\ a.ids.none)

\* C14: read, size and update of the store with a key that is not in the
\* store raise KeyError, and leave the keys and the content of every
\* feature as they were.
C14_UnknownKeyRaises ==
    [][(pc = "idle" /\ unknown_key(features, op', args')) =>
           (pc' = "raise" /\ ret' = "KeyError" /\ features' = features)]_vars

\* update with a key that is not in a store of two features has raised
\* KeyError.
C14_Witness ==
    /\ op = "FeatureStore.update"
    /\ pc = "raise"
    /\ ret = "KeyError"
    /\ args.key = MissingKey
    /\ Len(features) = 2

\* C15: read(ids) raises IndexError when some id is not a row index of the
\* array (it is the length of the array or more, or below minus the length),
\* whatever the other ids; nothing is returned.
C15_OutOfBoundsRaises ==
    (ReadCalled /\ ~args.ids.none) =>
        LET array == addressed(features, op, args)
        IN  (\E i \in 1 .. Len(args.ids.value) :
                \/ args.ids.value[i] >= array.shape[1]
                \/ args.ids.value[i] < -array.shape[1])
            => (pc = "raise" /\ ret = "IndexError")

\* read with ids [0, 2] of a feature of two rows has raised IndexError.
C15_Witness ==
    /\ op = "Feature.read"
    /\ pc = "raise"
    /\ ret = "IndexError"
    /\ ~args.ids.none
    /\ args.ids.value = <<0, 2>>
    /\ len(features[args.feature][2]) = 2

UpdateOps == {"Feature.update", "FeatureStore.update"}

\* The ids address rows of the tensor that differ from one another.
distinct_rows(tensor, ids) ==
    \A i, j \in 1 .. Len(ids) :
        i # j => (ids[i] - ids[j]) % tensor.shape[1] # 0

\* C16: update(value, ids) with distinct ids in bounds and as many rows of
\* value as ids returns having written in place: row ids[i] is value[i],
\* every other row is as it was and the array has the shape it had; and no
\* successful update changes the number of features or the shape of one.
C16_UpdateOverwritesInPlace ==
    [][/\ (/\ pc = "idle"
           /\ op' \in UpdateOps
           /\ addresses_feature(features, op', args')
           /\ ~args'.ids.none
           /\ in_bounds(addressed(features, op', args'), args'.ids.value)
           /\ distinct_rows(addressed(features, op', args'), args'.ids.value)
           /\ Len(args'.ids.value) = args'.value.shape[1])
          => LET array == addressed(features, op', args')
                 after == addressed(features', op', args')
                 ids == args'.ids.value
             IN  /\ pc' = "return"
                 /\ after.shape = array.shape
                 /\ Len(after.rows) = Len(array.rows)
                 /\ \A i \in 1 .. Len(ids) : row(after, ids[i]) = args'.value.rows[i]
                 /\ \A p \in 1 .. Len(array.rows) :
                       (\A i \in 1 .. Len(ids) : (ids[i] - (p - 1)) % Len(array.rows) # 0)
                           => after.rows[p] = array.rows[p]
       /\ (op' \in UpdateOps /\ pc' = "return")
          => /\ Len(features') = Len(features)
             /\ \A k \in 1 .. Len(features) :
                   /\ features'[k][1] = features[k][1]
                   /\ features'[k][2].shape = features[k][2].shape
                   /\ Len(features'[k][2].rows) = features[k][2].shape[1]]_vars

\* update with ids [1, 0] and the rows 0 and 1 has returned, and the rows of
\* the feature are 1 and 0.
C16_Witness ==
    /\ op = "Feature.update"
    /\ pc = "return"
    /\ ~args.ids.none
    /\ args.ids.value = <<1, 0>>
    /\ args.value.rows = <<<<0>>, <<1>>>>
    /\ features[args.feature][2].rows = <<<<1>>, <<0>>>>

\* C17: update raises AssertionError when ids is given and value has not as
\* many rows as ids, and when ids is omitted and the shape of value is not
\* the shape of the array; the content of the array is then as it was.
C17_UpdatePreconditionRaises ==
    [][(/\ pc = "idle"
        /\ op' \in UpdateOps
        /\ addresses_feature(features, op', args')
        /\ IF args'.ids.none
           THEN args'.value.shape # addressed(features, op', args').shape
           ELSE Len(args'.ids.value) # args'.value.shape[1])
       => (pc' = "raise" /\ ret' = "AssertionError" /\ features' = features)]_vars

\* update without ids has raised AssertionError for a value with as many
\* rows as the array but rows of another shape.
C17_Witness ==
    /\ op = "Feature.update"
    /\ pc = "raise"
    /\ ret = "AssertionError"
    /\ args.ids.none
    /\ args.value.shape[1] = features[args.feature][2].shape[1]
    /\ args.value.shape # features[args.feature][2].shape
    /\ args.value.shape[1] = 2

\* C18: size() of the store without key and ids, the store holding several
\* features, returns the number of rows of the feature inserted first,
\* whatever the lengths of the others.
C18_SizeOfFirstInserted ==
    (/\ op = "FeatureStore.size"
     /\ args.key = NoKey
     /\ args.ids.none
     /\ Len(features) >= 2)
    => (pc = "return" /\ ret = features[1][2].shape[1])

\* size() has returned 0 for a store whose first feature has no row and
\* whose second feature has two.
C18_Witness ==
    /\ op = "FeatureStore.size"
    /\ pc = "return"
    /\ args.key = NoKey
    /\ args.ids.none
    /\ Len(features) = 2
    /\ features[1][2].shape[1] = 0
    /\ features[2][2].shape[1] = 2
    /\ ret = 0

(***************************************************************************)
(* TorchBasedFeatureStore(feat_data): the store loaded from a list of      *)
(* OnDiskFeatureData descriptors.  The field path of a descriptor stands   *)
(* for the tensor saved at that path, which torch.load and np.load give    *)
(* back, in memory or as a memory map.                                     *)
(***************************************************************************)
\* features[key] = value on a dict in insertion order.
dict_setitem(d, key, value) ==
    IF dict_find(d, key) = 0 THEN Append(d, <<key, value>>)
    ELSE [d EXCEPT ![dict_find(d, key)][2] = value]

\* Variant: a torch descriptor is loaded whatever in_memory.
RECURSIVE load_features_unasserted(_, _)
load_features_unasserted(feat_data, loaded) ==
    IF feat_data = <<>> THEN [raised |-> "", features |-> loaded]
    ELSE LET spec == Head(feat_data)
             key == <<spec.domain, spec.type, spec.name>>
         IN  IF spec.format \in {"torch", "numpy"}
             THEN load_features_unasserted(
                      Tail(feat_data), dict_setitem(loaded, key, spec.path))
             ELSE [raised |-> "ValueError", features |-> <<>>]

\* The loop over feat_data, from the features loaded so far: the exception
\* raised and the dict of the features.
RECURSIVE load_features(_, _)
load_features(feat_data, loaded) ==
    IF feat_data = <<>> THEN [raised |-> "", features |-> loaded]
    ELSE LET spec == Head(feat_data)
             key == <<spec.domain, spec.type, spec.name>>
         IN  IF spec.format = "torch"
             THEN IF ~spec.in_memory
                  THEN [raised |-> "AssertionError", features |-> <<>>]
                  ELSE load_features(Tail(feat_data),
                                     dict_setitem(loaded, key, spec.path))
             ELSE IF spec.format = "numpy"
             THEN load_features(Tail(feat_data),
                                dict_setitem(loaded, key, spec.path))
             ELSE [raised |-> "ValueError", features |-> <<>>]

TorchBasedFeatureStore_init(feat_data) == load_features(feat_data, <<>>)

\* The descriptors: a key, a format (known or not), in_memory and the tensor
\* saved at the path, of one row.
OnDiskFeatureData ==
    {[domain |-> key[1], type |-> key[2], name |-> key[3], format |-> format,
      path |-> tensor, in_memory |-> in_memory] :
        key \in CallKeys, format \in {"torch", "numpy", "csv"},
        tensor \in Tensors(1, <<>>), in_memory \in BOOLEAN}

InitConstruct ==
    /\ op = "TorchBasedFeatureStore"
    /\ \E n \in 0 .. MaxDescriptors : \E feat_data \in SeqsOfLen(OnDiskFeatureData, n) :
          args = [feat_data |-> feat_data]
    /\ pc = "call"
    /\ ret = <<>>
    /\ NoStore

TorchBasedFeatureStoreInit ==
    /\ op = "TorchBasedFeatureStore"
    /\ pc = "call"
    /\ LET r == TorchBasedFeatureStore_init(args.feat_data)
       IN  IF r.raised = ""
           THEN pc' = "return" /\ ret' = <<>> /\ features' = r.features
           ELSE pc' = "raise" /\ ret' = r.raised /\ features' = features
    /\ UNCHANGED <<op, args, workers>>

NextConstruct == TorchBasedFeatureStoreInit

SpecConstruct == InitConstruct /\ [][NextConstruct]_vars

(***************************************************************************)
(* Properties of the construction.                                         *)
(***************************************************************************)
rejected(spec) ==
    \/ spec.format = "torch" /\ ~spec.in_memory
    \/ spec.format \notin {"torch", "numpy"}

\* C19: the construction raises AssertionError for a torch descriptor with
\* in_memory false and ValueError for a descriptor of an unknown format (the
\* first such descriptor of the list deciding), and no store is made; numpy
\* descriptors are accepted with in_memory true or false; a construction
\* that succeeds holds one feature per key (domain, type, name) of the
\* descriptors.
C19_ConstructionRejectsOrLoads ==
    (op = "TorchBasedFeatureStore" /\ pc # "call") =>
        LET feat_data == args.feat_data
            offenders == {i \in 1 .. Len(feat_data) : rejected(feat_data[i])}
        IN  IF offenders # {}
            THEN LET first == feat_data[CHOOSE i \in offenders :
                                            \A j \in offenders : i <= j]
                 IN  /\ pc = "raise"
                     /\ ret = (IF first.format = "torch" THEN "AssertionError"
                               ELSE "ValueError")
                     /\ features = <<>>
            ELSE /\ pc = "return"
                 /\ {features[k][1] : k \in 1 .. Len(features)} =
                       {<<feat_data[i].domain, feat_data[i].type, feat_data[i].name>> :
                           i \in 1 .. Len(feat_data)}
                 /\ \A k, l \in 1 .. Len(features) :
                       features[k][1] = features[l][1] => k = l

\* A store of two features has been made from a torch descriptor and a
\* numpy descriptor with in_memory false.
C19_Witness ==
    /\ op = "TorchBasedFeatureStore"
    /\ pc = "return"
    /\ Len(features) = 2
    /\ Len(args.feat_data) = 2
    /\ args.feat_data[1].format = "torch"
    /\ args.feat_data[2].format = "numpy"
    /\ ~args.feat_data[2].in_memory

(***************************************************************************)
(* Concurrent readers of a shared store.  Each worker makes one call of    *)
(* read or size of the store, in two steps that interleave with the steps  *)
(* of the other workers: the feature is looked up in the dict (or taken as *)
(* the first value of the dict, for size without key and ids), then the    *)
(* feature is read or sized.                                               *)
(***************************************************************************)
\* Variant: a feature that is looked up is moved to the front of the dict.
reader_step_caching(d, call) ==
    IF call.pc = "call"
    THEN IF call.op = "size" /\ call.key = NoKey /\ call.ids.none /\ d # <<>>
         THEN [features |-> d,
               call |-> [call EXCEPT !.pc = "found", !.feature = 1]]
         ELSE LET i == dict_find(d, call.key)
              IN  IF i = 0
                  THEN [features |-> d,
                        call |-> [call EXCEPT !.pc = "raise", !.ret = "KeyError"]]
                  ELSE [features |-> <<d[i]>> \o SelectSeq(d, LAMBDA e : e # d[i]),
                        call |-> [call EXCEPT !.pc = "found", !.feature = 1]]
    ELSE LET tensor == d[call.feature][2]
             o == IF call.op = "read" THEN TorchBasedFeature_read(tensor, call.ids)
                  ELSE TorchBasedFeature_size(tensor, call.ids)
         IN  [features |-> d,
              call |-> IF o.raised = ""
                       THEN [call EXCEPT !.pc = "return", !.ret = o.value]
                       ELSE [call EXCEPT !.pc = "raise", !.ret = o.raised]]

\* One step of a call of read or size: the dict and the call afterwards.
reader_step(d, call) ==
    IF call.pc = "call"
    THEN IF call.op = "size" /\ call.key = NoKey /\ call.ids.none /\ d # <<>>
         THEN [features |-> d,
               call |-> [call EXCEPT !.pc = "found", !.feature = 1]]
         ELSE LET i == dict_find(d, call.key)
              IN  IF i = 0
                  THEN [features |-> d,
                        call |-> [call EXCEPT !.pc = "raise", !.ret = "KeyError"]]
                  ELSE [features |-> d,
                        call |-> [call EXCEPT !.pc = "found", !.feature = i]]
    ELSE LET tensor == d[call.feature][2]
             o == IF call.op = "read" THEN TorchBasedFeature_read(tensor, call.ids)
                  ELSE TorchBasedFeature_size(tensor, call.ids)
         IN  [features |-> d,
              call |-> IF o.raised = ""
                       THEN [call EXCEPT !.pc = "return", !.ret = o.value]
                       ELSE [call EXCEPT !.pc = "raise", !.ret = o.raised]]

Workers == 1 .. MaxWorkers

\* ids of a concurrent call: None, or fewer than MaxIdsLen indices.
ReaderIds ==
    {None} \cup {Some(ids) : ids \in UNION {SeqsOfLen(-1 .. MaxRows, n) :
                                               n \in 0 .. MaxIdsLen - 1}}

\* The calls: read with a key, size with a key, size without key and ids.
ReaderCalls ==
    {[op |-> o, key |-> key, ids |-> ids, pc |-> "call", feature |-> 0, ret |-> <<>>] :
        o \in {"read", "size"}, key \in CallKeys, ids \in ReaderIds}
    \cup {[op |-> "size", key |-> NoKey, ids |-> None, pc |-> "call",
           feature |-> 0, ret |-> <<>>]}

\* The shared store: two features, inserted in either order.
InitReaders ==
    /\ \E keys \in {ks \in KeyOrders : Len(ks) = 2} :
          features \in FeatureDicts(keys, MaxRows - 1)
    /\ workers \in [Workers -> ReaderCalls]
    /\ op = "FeatureStore"
    /\ args = <<>>
    /\ pc = "shared"
    /\ ret = <<>>

Reader(w) ==
    /\ workers[w].pc \in {"call", "found"}
    /\ LET r == reader_step(features, workers[w])
       IN  /\ features' = r.features
           /\ workers' = [workers EXCEPT ![w] = r.call]
    /\ UNCHANGED <<op, args, pc, ret>>

NextReaders == \E w \in Workers : Reader(w)

SpecReaders == InitReaders /\ [][NextReaders]_vars

(***************************************************************************)
(* Properties of concurrent readers.                                       *)
(***************************************************************************)
\* The outcome of the call when it is the only call of the store d.
alone(d, call) ==
    IF call.op = "read" THEN BasicFeatureStore_read(d, call.key, call.ids)
    ELSE BasicFeatureStore_size(d, call.key, call.ids)

\* C20: concurrent reads are safe: no step of a call of read or size changes
\* the keys or the content of a feature of the store, and whatever the
\* interleaving of the steps of the workers, a call ends as it would have
\* ended alone: with the same value returned or the same exception raised.
C20_ConcurrentReadsAreSafe ==
    /\ [](\A w \in Workers :
            /\ workers[w].pc = "return" =>
                  /\ alone(features, workers[w]).raised = ""
                  /\ workers[w].ret = alone(features, workers[w]).value
            /\ workers[w].pc = "raise" =>
                  workers[w].ret = alone(features, workers[w]).raised)
    /\ [][features' = features]_vars

\* One worker is between the two steps of its call of size while another
\* worker has read a row of the same feature and returned.
C20_Witness ==
    /\ workers[1].pc = "found"
    /\ workers[2].pc = "return"
    /\ workers[2].op = "read"
    /\ workers[1].key = workers[2].key
    /\ ~workers[2].ids.none
    /\ Len(workers[2].ids.value) = 1
    /\ workers[1].op = "size"

(***************************************************************************)
(* Concurrent updates of one feature.  Each worker makes one call of       *)
(* update(value, ids) of the same TorchBasedFeature.  No lock is taken:    *)
(* after the assertion of the call, the rows are written one at a time, in *)
(* any order, and the writes of the workers interleave.                    *)
(***************************************************************************)
\* The rows the call has to write: the indices into ids, or into value when
\* ids is None.
rows_to_write(call) ==
    IF call.ids.none THEN 1 .. len(call.value) ELSE 1 .. Len(call.ids.value)

\* Variant: the update is made on a copy taken when the call begins, which
\* replaces the tensor when the last row is written.
writer_step_on_a_copy(tensor, call, i) ==
    IF call.pc = "call"
    THEN LET o == CHOOSE x \in TorchBasedFeature_update(tensor, call.value, call.ids) : TRUE
         IN  IF o.raised # ""
             THEN [tensor |-> tensor,
                   call |-> [call EXCEPT !.pc = "raise", !.ret = o.raised]]
             ELSE IF rows_to_write(call) = {}
             THEN [tensor |-> tensor, call |-> [call EXCEPT !.pc = "return"]]
             ELSE [tensor |-> tensor,
                   call |-> [call EXCEPT !.pc = "write", !.ret = o.tensor,
                                         !.pending = rows_to_write(call)]]
    ELSE IF call.pending = {i}
         THEN [tensor |-> call.ret,
               call |-> [call EXCEPT !.pc = "return", !.ret = <<>>, !.pending = {}]]
         ELSE [tensor |-> tensor,
               call |-> [call EXCEPT !.pending = @ \ {i}]]

\* One step of a call of update on the tensor: the assertion of the call,
\* or the write of row i of those still to write; the tensor and the call
\* afterwards.
writer_step(tensor, call, i) ==
    IF call.pc = "call"
    THEN IF (IF call.ids.none THEN tensor.shape # call.value.shape
             ELSE Len(call.ids.value) # len(call.value))
         THEN [tensor |-> tensor,
               call |-> [call EXCEPT !.pc = "raise", !.ret = "AssertionError"]]
         ELSE IF rows_to_write(call) = {}
         THEN [tensor |-> tensor, call |-> [call EXCEPT !.pc = "return"]]
         ELSE [tensor |-> tensor,
               call |-> [call EXCEPT !.pc = "write",
                                     !.pending = rows_to_write(call)]]
    ELSE LET id == IF call.ids.none THEN i - 1 ELSE call.ids.value[i]
         IN  IF ~valid_index(len(tensor), id)
             THEN [tensor |-> tensor,
                   call |-> [call EXCEPT !.pc = "raise", !.ret = "IndexError",
                                         !.pending = {}]]
             ELSE [tensor |-> [tensor EXCEPT
                                  !.rows[position(len(tensor), id)] = call.value.rows[i]],
                   call |-> [call EXCEPT
                                !.pending = @ \ {i},
                                !.pc = IF call.pending = {i} THEN "return" ELSE "write"]]

\* The calls of update on a feature of n scalar rows: as many rows of value
\* as ids, or a value of the shape of the feature without ids.
WriterCalls(n) ==
    {[op |-> "update", value |-> value, ids |-> Some(ids), pc |-> "call",
      pending |-> {}, ret |-> <<>>] :
        ids \in {x \in IdsTensors : Len(x) = 0}, value \in Tensors(0, <<>>)}
    \cup UNION {{[op |-> "update", value |-> value, ids |-> Some(ids), pc |-> "call",
                  pending |-> {}, ret |-> <<>>] :
                    ids \in SeqsOfLen(-1 .. MaxRows, k), value \in Tensors(k, <<>>)} :
                  k \in 1 .. MaxIdsLen}
    \cup {[op |-> "update", value |-> value, ids |-> None, pc |-> "call",
           pending |-> {}, ret |-> <<>>] : value \in Tensors(n, <<>>)}

\* The feature, of scalar rows, is made from torch_feature and shared by
\* the workers.
InitWriters ==
    /\ op = "TorchBasedFeature"
    /\ \E n \in 0 .. MaxRows : \E torch_feature \in Tensors(n, <<>>) :
          /\ args = [torch_feature |-> torch_feature]
          /\ features = <<<<KeyList[1], torch_feature>>>>
          /\ workers \in [Workers -> WriterCalls(n)]
    /\ pc = "shared"
    /\ ret = <<>>

Writer(w) ==
    /\ workers[w].pc \in {"call", "write"}
    /\ \E i \in (IF workers[w].pc = "call" THEN {0} ELSE workers[w].pending) :
          LET r == writer_step(features[1][2], workers[w], i)
          IN  /\ features' = [features EXCEPT ![1][2] = r.tensor]
              /\ workers' = [workers EXCEPT ![w] = r.call]
    /\ UNCHANGED <<op, args, pc, ret>>

NextWriters == \E w \in Workers : Writer(w)

SpecWriters == InitWriters /\ [][NextWriters]_vars

(***************************************************************************)
(* Properties of concurrent updates.                                       *)
(***************************************************************************)
\* The rows of a tensor of n rows that the index set of the call names.
rows_named(call, n) ==
    IF call.ids.none THEN 1 .. n
    ELSE {IF call.ids.value[i] < 0 THEN call.ids.value[i] + n + 1
          ELSE call.ids.value[i] + 1 :
            i \in {j \in 1 .. Len(call.ids.value) :
                      -n <= call.ids.value[j] /\ call.ids.value[j] < n}}

\* The orders in which the workers can make their calls one after another.
RECURSIVE OrdersOf(_)
OrdersOf(W) ==
    IF W = {} THEN {<<>>}
    ELSE UNION {{<<w>> \o rest : rest \in OrdersOf(W \ {w})} : w \in W}

\* The contents the tensor can have after the calls of the workers are made
\* one after another in the order given, each call whole.
RECURSIVE one_after_another(_, _)
one_after_another(tensor, order) ==
    IF order = <<>> THEN {tensor}
    ELSE UNION {one_after_another(o.tensor, Tail(order)) :
                   o \in TorchBasedFeature_update(tensor, workers[Head(order)].value,
                                                  workers[Head(order)].ids)}

WritersDone == \A w \in Workers : workers[w].pc \in {"return", "raise"}

\* The content of the feature is what no order of the whole calls gives.
race_outcome ==
    \A order \in OrdersOf(Workers) :
        features[1][2] \notin one_after_another(args.torch_feature, order)

overlapping(v, w) ==
    rows_named(workers[v], len(features[1][2]))
        \cap rows_named(workers[w], len(features[1][2])) # {}

\* C21: concurrent updates of one feature are not synchronized.  When the
\* index sets of the calls are disjoint, the feature ends with a content
\* that every order of the calls, made one after another, gives as well; a
\* content that no such order gives (a data race) ends calls whose index
\* sets overlap, and only those.
C21_UpdatesRaceOnlyOnOverlap ==
    WritersDone =>
        /\ (\A v, w \in Workers : v # w => ~overlapping(v, w))
              => \A order \in OrdersOf(Workers) :
                    features[1][2] \in one_after_another(args.torch_feature, order)
        /\ race_outcome => \E v, w \in Workers : v # w /\ overlapping(v, w)

\* Two updates of the rows 0 and 1 have returned, and the feature holds row
\* 0 of one and row 1 of the other: neither order of the two calls gives it.
C21_Witness ==
    /\ op = "TorchBasedFeature"
    /\ workers[1].pc = "return"
    /\ workers[2].pc = "return"
    /\ ~workers[1].ids.none
    /\ ~workers[2].ids.none
    /\ workers[1].ids.value = <<0, 1>>
    /\ workers[2].ids.value = <<0, 1>>
    /\ overlapping(1, 2)
    /\ race_outcome
    /\ features[1][2].rows[1] = workers[1].value.rows[1]
    /\ features[1][2].rows[2] = workers[2].value.rows[2]

(***************************************************************************)
(* Consistency of the relabeling of unique_and_compact_node_pairs.         *)
(***************************************************************************)
\* The occurrences of IDs in a returned call: the node type, the original ID
\* and the dense ID of every source and destination of every edge.
occurrences ==
    IF args.is_homogeneous
    THEN {<<HomoNodeType, args.node_pairs[role][p], ret.compacted_node_pairs[role][p]>> :
             role \in 1 .. 2, p \in 1 .. Len(args.node_pairs[1])}
    ELSE UNION {
           LET etype == args.node_pairs[i][1]
               pair == args.node_pairs[i][2]
               src_type == etype[1]
               dst_type == etype[Len(etype)]
           IN  {<<src_type, pair[1][p], ret.compacted_node_pairs[etype][1][p]>> :
                   p \in 1 .. Len(pair[1])}
               \cup {<<dst_type, pair[2][p], ret.compacted_node_pairs[etype][2][p]>> :
                        p \in 1 .. Len(pair[2])} :
           i \in 1 .. Len(args.node_pairs)}

\* C22: in one call of unique_and_compact_node_pairs, two occurrences of the
\* same original ID of one node type have the same dense ID, be they sources
\* or destinations and whatever their edge types, and two different original
\* IDs of one node type never have the same dense ID.
C22_RelabelingConsistent ==
    PairsReturned =>
        \A x, y \in occurrences :
            x[1] = y[1] => ((x[2] = y[2]) <=> (x[3] = y[3]))

\* An ID of n1 is the source of an edge of n1:e2:n1, whose destination is
\* another ID of n1, and the destination of an edge of n2:e3:n1; the call
\* has returned.
C22_Witness ==
    /\ PairsReturned
    /\ ~args.is_homogeneous
    /\ \E i, j \in 1 .. Len(args.node_pairs) :
          /\ args.node_pairs[i][1] = EdgeTypeList[2]
          /\ args.node_pairs[j][1] = EdgeTypeList[3]
          /\ Len(args.node_pairs[i][2][1]) = 1
          /\ Len(args.node_pairs[j][2][2]) = 1
          /\ args.node_pairs[i][2][1][1] = args.node_pairs[j][2][2][1]
          /\ args.node_pairs[i][2][1][1] # args.node_pairs[i][2][2][1]
          /\ ret.compacted_node_pairs[EdgeTypeList[2]][1][1]
                = ret.compacted_node_pairs[EdgeTypeList[3]][2][1]
          /\ Len(ret.unique_nodes["n1"]) = 2

(***************************************************************************)
(* The accumulators of compact_csc_format.                                 *)
(***************************************************************************)
\* The source type of the i-th edge type of the call.
src_type_at(i) == etype_str_to_tuple(args.csc_formats[i][1])[1]

\* The original indices of the edge types before the i-th whose source type
\* is t, one after another in the order of the input mapping.
RECURSIVE appended_before(_, _)
appended_before(i, t) ==
    IF i <= 1 THEN <<>>
    ELSE appended_before(i - 1, t)
         \o (IF src_type_at(i - 1) = t THEN args.csc_formats[i - 1][2].indices
             ELSE <<>>)

\* The destination nodes of the type t, none when the table has no such type.
dst_nodes_of(t) == get(args.dst_nodes, t, <<>>)

\* C23: compact_csc_format collapses no edges: the rewritten indices of an
\* edge type are offset, offset + 1, ... as many as its indices, where offset
\* is what its source type has accumulated before it (the destination nodes
\* of the type and the indices of the earlier edge types of that source
\* type); so the rewritten indices of the edge types of one source type are
\* pairwise different and none is below the number of destination nodes of
\* the source type.
C23_RewrittenIndicesAreDistinctRanges ==
    CscCompactReturned =>
        IF args.is_homogeneous
        THEN LET out == ret.compacted_csc_formats.indices
             IN  /\ Len(out) = Len(args.csc_formats.indices)
                 /\ \A p \in 1 .. Len(out) : out[p] = Len(args.dst_nodes) + p - 1
                 /\ \A p, q \in 1 .. Len(out) : p # q => out[p] # out[q]
        ELSE \A i \in 1 .. Len(args.csc_formats) :
                LET s == src_type_at(i)
                    offset == Len(dst_nodes_of(s)) + Len(appended_before(i, s))
                    out == ret.compacted_csc_formats[csc_etypes[i]].indices
                IN  /\ Len(out) = Len(args.csc_formats[i][2].indices)
                    /\ \A p \in 1 .. Len(out) :
                          /\ out[p] = offset + p - 1
                          /\ out[p] >= Len(dst_nodes_of(s))
                    /\ \A j \in 1 .. Len(args.csc_formats) :
                          src_type_at(j) = s =>
                             LET other == ret.compacted_csc_formats[csc_etypes[j]].indices
                             IN  \A p \in 1 .. Len(out), q \in 1 .. Len(other) :
                                    <<i, p>> # <<j, q>> => out[p] # other[q]

\* compact_csc_format has returned for n1:e1:n2 before n1:e2:n1, each with
\* one index, n1 having one destination node: the second edge type starts
\* after the destination node and the index of the first.
C23_Witness ==
    /\ CscCompactReturned
    /\ ~args.is_homogeneous
    /\ csc_etypes = <<EdgeTypeList[1], EdgeTypeList[2]>>
    /\ Len(args.dst_nodes["n1"]) = 1
    /\ Len(args.csc_formats[1][2].indices) = 1
    /\ Len(args.csc_formats[2][2].indices) = 1
    /\ ret.compacted_csc_formats[EdgeTypeList[1]].indices = <<1>>
    /\ ret.compacted_csc_formats[EdgeTypeList[2]].indices = <<2>>

\* C24: compact_csc_format returns as original_row_ids[t], for every node
\* type t that is a destination type or a source type, the destination nodes
\* of t (none when t is not a destination type) followed by the original
\* indices of the edge types whose source type is t, in the order of the
\* input mapping, and an entry for no other type; so the destination nodes
\* keep their positions and the length is the number of destination nodes
\* plus the numbers of indices of those edge types.
C24_OriginalRowIdsAreDstThenIndices ==
    CscCompactReturned =>
        IF args.is_homogeneous
        THEN /\ ret.original_row_ids = args.dst_nodes \o args.csc_formats.indices
             /\ \A p \in 1 .. Len(args.dst_nodes) :
                   ret.original_row_ids[p] = args.dst_nodes[p]
        ELSE LET n == Len(args.csc_formats)
                 src_types == {src_type_at(i) : i \in 1 .. n}
             IN  /\ DOMAIN ret.original_row_ids = DOMAIN args.dst_nodes \cup src_types
                 /\ \A t \in DOMAIN ret.original_row_ids :
                       LET rows == ret.original_row_ids[t]
                       IN  /\ rows = dst_nodes_of(t) \o appended_before(n + 1, t)
                           /\ \A p \in 1 .. Len(dst_nodes_of(t)) :
                                 rows[p] = dst_nodes_of(t)[p]
                           /\ Len(rows) =
                                 Len(dst_nodes_of(t))
                                 + SeqSum([i \in 1 .. n |->
                                       IF src_type_at(i) = t
                                       THEN Len(args.csc_formats[i][2].indices)
                                       ELSE 0])

\* compact_csc_format has returned for n2:e3:n1 before n1:e2:n1, each with
\* one index: n2 is no destination type and its entry is the index of
\* n2:e3:n1 alone, n1 has its destination node before the index of n1:e2:n1,
\* which is another ID.
C24_Witness ==
    /\ CscCompactReturned
    /\ ~args.is_homogeneous
    /\ csc_etypes = <<EdgeTypeList[3], EdgeTypeList[2]>>
    /\ "n2" \notin DOMAIN args.dst_nodes
    /\ Len(args.dst_nodes["n1"]) = 1
    /\ Len(args.csc_formats[1][2].indices) = 1
    /\ Len(args.csc_formats[2][2].indices) = 1
    /\ args.csc_formats[2][2].indices # args.dst_nodes["n1"]
    /\ ret.original_row_ids["n2"] = args.csc_formats[1][2].indices
    /\ Len(ret.original_row_ids["n1"]) = 2

(***************************************************************************)
(* The three compaction operations called with homogeneous input.          *)
(***************************************************************************)
InitHomogeneous ==
    /\ InitPairs \/ InitCsc
    /\ args.is_homogeneous

NextHomogeneous ==
    \/ UniqueAndCompactNodePairs
    \/ UniqueAndCompactCscFormats
    \/ CompactCscFormat

SpecHomogeneous == InitHomogeneous /\ [][NextHomogeneous]_vars

\* The single entries of the mappings returned for a one-type input.
single_entries_of_pairs(r) ==
    [unique_nodes |-> r.unique_nodes[HomoNodeType],
     compacted_node_pairs |-> r.compacted_node_pairs[HomoEdgeType]]

single_entries_of_csc(r) ==
    [unique_nodes |-> r.unique_nodes[HomoNodeType],
     compacted_csc_formats |-> r.compacted_csc_formats[HomoEdgeType]]

single_entries_of_compact(r) ==
    [original_row_ids |-> r.original_row_ids[HomoNodeType],
     compacted_csc_formats |-> r.compacted_csc_formats[HomoEdgeType]]

\* The results of the heterogeneous call on the input under "_N:_E:_N" and
\* the destination table under "_N", for each of the three operations.
pairs_as_one_type ==
    unique_and_compact_node_pairs(
        <<<<HomoEdgeType, args.node_pairs>>>>,
        IF args.unique_dst_nodes.none THEN None
        ELSE Some(HomoNodeType :> args.unique_dst_nodes.value),
        FALSE)

csc_as_one_type ==
    unique_and_compact_csc_formats(
        <<<<HomoEdgeType, args.csc_formats>>>>, (HomoNodeType :> args.dst_nodes), FALSE)

compact_as_one_type ==
    compact_csc_format(
        <<<<HomoEdgeType, args.csc_formats>>>>, (HomoNodeType :> args.dst_nodes), FALSE)

====
